---- MODULE Spec2Model ----
(***************************************************************************)
(* Log restore (br/pkg/restore, LogClient): replay of a cdc log backup     *)
(* into a cluster.  The orchestrator RestoreLogData checks the ts window,  *)
(* executes the database-level DDL, creates one puller and one buffer per  *)
(* table and runs one worker (restoreTableFromPuller) per table.           *)
(*                                                                         *)
(* Spec      : the whole restore call with two table workers.              *)
(* SpecWrite : writeRows alone, on batches drawn from a bounded set.       *)
(***************************************************************************)
EXTENDS Integers, Sequences, FiniteSets, TLC

(***************************************************************************)
(* Bounds                                                                  *)
(***************************************************************************)
\* largest commit ts carried by an event of the log
MaxTS == 4
\* number of events, DDL and row-change, the log holds at most
MaxEvents == 3
\* number of distinct row keys
MaxKey == 1
\* width of a ts in bits (64 in the program)
TSBits == 5

\* writeRows alone: number of pairs of a batch, number of distinct keys
MaxBatch == 3
MaxBatchKey == 3

\* concurrencyCfg.BatchFlushKVPairs: pairs a buffer holds before ShouldApply
BatchFlushKVPairs == 4

\* rounds of the loop of writeRows that are counted; the count stays at
\* MaxRounds from then on
MaxRounds == 5

maxUint64 == 2^TSBits - 1

maxRetryTimes == 3

TSs == 1..MaxTS
Keys == 1..MaxKey

Schemas == {"s1", "s2"}
NoTable == ""

\* LogMeta.Names of the backup: backup table id -> qualified name
MetaNames == [t \in {1, 2} |-> IF t = 1 THEN <<"s1", "t1">> ELSE <<"s2", "t1">>]
TableIDs == DOMAIN MetaNames

\* model.ActionType values met in the log
DBTypes == {"CreateSchema", "DropSchema", "ModifySchemaCharsetAndCollate"}
TableTypes == {"CreateTable", "DropTable", "TruncateTable"}

NoItem == [ItemType |-> "nil"]

(***************************************************************************)
(* Pure helpers of LogClient                                               *)
(***************************************************************************)
ParseQuoteName(name) == [schema |-> name[1], table |-> name[2]]

isDBRelatedDDL(ddl) == ddl.Type \in DBTypes

\* a test that never sees a drop table
isDropTable_Never(ddl) == FALSE

isDropTable(ddl) == ddl.Type = "DropTable"

maybeTSInRange(start, ts) == ts >= start

tsInRange(start, end, ts) == start <= ts /\ ts <= end

\* dropTSMap maps a schema to 0 when nothing is stored for it
shouldFilter_Never(dropMap, item) == FALSE
shouldFilter(dropMap, item) ==
    /\ dropMap[item.Schema] # 0
    /\ dropMap[item.Schema] > item.TS

\* decimal digits of n, most significant first (strconv / fmt of a uint64)
RECURSIVE Digits(_)
Digits(n) == IF n < 10 THEN <<n>> ELSE Append(Digits(n \div 10), n % 10)

\* byte-wise order of two strings of digits (sort.StringSlice.Less)
RECURSIVE StrLess(_, _)
StrLess(a, b) ==
    IF a = <<>> THEN b # <<>>
    ELSE IF b = <<>> THEN FALSE
    ELSE IF Head(a) # Head(b) THEN Head(a) < Head(b)
    ELSE StrLess(Tail(a), Tail(b))

\* the name of a DDL file is ddl.<maxUint64 - ts of its first event>
DDLFileName(f) == Digits(maxUint64 - f.ts)

\* a filter that also drops the file whose ts is endTS
NeedRestoreDDL_Strict(end, n) == (maxUint64 - n) < end

\* NeedRestoreDDL on a well-formed name ddl.<n>
NeedRestoreDDL(end, n) == (maxUint64 - n) <= end

\* sort.Sort(sort.StringSlice(ddlFiles)): the file of the latest DDL first
RECURSIVE SortForward(_)
SortForward(S) ==
    IF S = {} THEN <<>>
    ELSE LET low == CHOOSE f \in S :
                      \A g \in S \ {f} : StrLess(DDLFileName(f), DDLFileName(g))
         IN <<low>> \o SortForward(S \ {low})

\* sort.Sort(sort.Reverse(sort.StringSlice(ddlFiles)))
RECURSIVE SortReverse(_)
SortReverse(S) ==
    IF S = {} THEN <<>>
    ELSE LET top == CHOOSE f \in S :
                      \A g \in S \ {f} : StrLess(DDLFileName(g), DDLFileName(f))
         IN <<top>> \o SortReverse(S \ {top})

RECURSIVE Flatten(_)
Flatten(files) ==
    IF files = <<>> THEN <<>> ELSE Head(files).events \o Flatten(Tail(files))

\* the name of a row-change file after the common prefix "cdclog": nothing for
\* the bare name, the digits of <ts> for cdclog.<ts> (0 stands for the bare name)
RowFileName(n) == IF n = 0 THEN <<>> ELSE Digits(n)

\* the less function given to sort.Slice: x is sortFiles[i], y is sortFiles[j]
RowFileLess(x, y) == IF y = 0 THEN TRUE ELSE StrLess(RowFileName(x), RowFileName(y))

\* the inner loop of the insertion sort of sort.Slice (fewer than 12 elements):
\* for j := i; j > a && less(j, j-1); j-- { swap(j, j-1) }
RECURSIVE SiftDown(_, _)
SiftDown(files, j) ==
    IF j > 1 /\ RowFileLess(files[j], files[j - 1])
    THEN SiftDown([files EXCEPT ![j] = files[j - 1], ![j - 1] = files[j]], j - 1)
    ELSE files

RECURSIVE SortSliceFrom(_, _)
SortSliceFrom(files, i) ==
    IF i > Len(files) THEN files ELSE SortSliceFrom(SiftDown(files, i), i + 1)

\* sort.Slice(sortFiles, less)
SortSlice(files) == SortSliceFrom(files, 2)


(***************************************************************************)
(* writeRows: sort, deduplicate, covering range                            *)
(* A pair is [cls, key, val]; val names the row-change event the pair was  *)
(* encoded from (its commit ts) and the table id it was encoded against.   *)
(***************************************************************************)
\* insert p before the pairs of its key: a sort that is not stable
RECURSIVE InsertStable_BeforeEqual(_, _)
InsertStable_BeforeEqual(sorted, p) ==
    IF sorted = <<>> THEN <<p>>
    ELSE IF p.key <= Head(sorted).key THEN <<p>> \o sorted
    ELSE <<Head(sorted)>> \o InsertStable_BeforeEqual(Tail(sorted), p)

\* insert p after every pair whose key is <= p.key: the sort is stable
RECURSIVE InsertStable(_, _)
InsertStable(sorted, p) ==
    IF sorted = <<>> THEN <<p>>
    ELSE IF p.key < Head(sorted).key THEN <<p>> \o sorted
    ELSE <<Head(sorted)>> \o InsertStable(Tail(sorted), p)

RECURSIVE SortSliceStable(_)
SortSliceStable(kvs) ==
    IF kvs = <<>> THEN <<>>
    ELSE InsertStable(SortSliceStable(SubSeq(kvs, 1, Len(kvs) - 1)), kvs[Len(kvs)])

\* a loop that skips kvs[i+1] when it has the key of kvs[i]
RECURSIVE RemoveDuplicates_KeepFirst(_)
RemoveDuplicates_KeepFirst(kvs) ==
    IF Len(kvs) <= 1 THEN kvs
    ELSE IF kvs[1].key = kvs[2].key
         THEN RemoveDuplicates_KeepFirst(<<kvs[1]>> \o Tail(Tail(kvs)))
    ELSE <<kvs[1]>> \o RemoveDuplicates_KeepFirst(Tail(kvs))

\* the loop of writeRows that skips kvs[i] when kvs[i+1] has the same key
RECURSIVE RemoveDuplicates(_)
RemoveDuplicates(kvs) ==
    IF Len(kvs) <= 1 THEN kvs
    ELSE IF kvs[1].key = kvs[2].key THEN RemoveDuplicates(Tail(kvs))
    ELSE <<kvs[1]>> \o RemoveDuplicates(Tail(kvs))

\* kv.NextKey: the smallest key greater than k
NextKey(k) == k + 1

\* a range that ends at the last key
CoveringRange_NoNextKey(newKvs) ==
    [Start |-> newKvs[1].key, End |-> newKvs[Len(newKvs)].key]

\* Range{Start: newKvs[0].Key, End: kv.NextKey(newKvs[len(newKvs)-1].Key)}
CoveringRange(newKvs) ==
    [Start |-> newKvs[1].key, End |-> NextKey(newKvs[Len(newKvs)].key)]

InRange(k, r) == r.Start <= k /\ k < r.End

Elems(seq) == {seq[i] : i \in 1..Len(seq)}

\* kv.NewSimpleKVIterProducer(newKvs).Produce(start, end): the pairs of [start, end)
Produce(newKvs, r) == {p \in Elems(newKvs) : InRange(p.key, r)}

\* The results writeRows can have on a batch: it returns nil with every pair
\* of the covering range ingested, or an error with any part of them ingested.
WriteRowsOutcomes(kvs) ==
    IF Len(kvs) = 0 THEN {[err |-> FALSE, stored |-> {}]}
    ELSE LET newKvs == RemoveDuplicates(SortSliceStable(kvs))
             all == Produce(newKvs, CoveringRange(newKvs))
         IN {[err |-> FALSE, stored |-> all]}
            \cup {[err |-> TRUE, stored |-> S] : S \in SUBSET all}

\* KvPairs.ClassifyAndAppend: the data pairs and the index pairs, order kept
SelectCls(kvs, c) == SelectSeq(kvs, LAMBDA p : p.cls = c)

\* applyKVChanges without tableBuffer.Clear()
applyKVChangesOutcomes_NoClear(buf) ==
    IF buf.KvPairs = <<>> THEN {[err |-> FALSE, stored |-> {}, buf |-> buf]}
    ELSE LET dataKVs == SelectCls(buf.KvPairs, "data")
             indexKVs == SelectCls(buf.KvPairs, "index")
         IN {[err |-> TRUE, stored |-> d.stored, buf |-> buf] :
                 d \in {o \in WriteRowsOutcomes(dataKVs) : o.err}}
            \cup {[err |-> i.err, stored |-> d.stored \cup i.stored, buf |-> buf] :
                 d \in {o \in WriteRowsOutcomes(dataKVs) : ~o.err},
                 i \in WriteRowsOutcomes(indexKVs)}

\* applyKVChanges that drops the error of the second writeRows
applyKVChangesOutcomes_IndexErrLost(buf) ==
    IF buf.KvPairs = <<>> THEN {[err |-> FALSE, stored |-> {}, buf |-> buf]}
    ELSE LET dataKVs == SelectCls(buf.KvPairs, "data")
             indexKVs == SelectCls(buf.KvPairs, "index")
         IN {[err |-> TRUE, stored |-> d.stored, buf |-> buf] :
                 d \in {o \in WriteRowsOutcomes(dataKVs) : o.err}}
            \cup {[err |-> FALSE, stored |-> d.stored \cup i.stored,
                   buf |-> [buf EXCEPT !.KvPairs = <<>>]] :
                 d \in {o \in WriteRowsOutcomes(dataKVs) : ~o.err},
                 i \in WriteRowsOutcomes(indexKVs)}

\* applyKVChanges with the test of IsEmpty inverted
applyKVChangesOutcomes_InvertedEmptyCheck(buf) ==
    IF buf.KvPairs # <<>> THEN {[err |-> FALSE, stored |-> {}, buf |-> buf]}
    ELSE {[err |-> o.err, stored |-> o.stored, buf |-> buf] : o \in WriteRowsOutcomes(<<>>)}

\* applyKVChanges on a buffer: [err, stored, buf]
applyKVChangesOutcomes(buf) ==
    IF buf.KvPairs = <<>> THEN {[err |-> FALSE, stored |-> {}, buf |-> buf]}
    ELSE LET dataKVs == SelectCls(buf.KvPairs, "data")
             indexKVs == SelectCls(buf.KvPairs, "index")
         IN {[err |-> TRUE, stored |-> d.stored, buf |-> buf] :
                 d \in {o \in WriteRowsOutcomes(dataKVs) : o.err}}
            \cup {[err |-> TRUE, stored |-> d.stored \cup i.stored, buf |-> buf] :
                 d \in {o \in WriteRowsOutcomes(dataKVs) : ~o.err},
                 i \in {o \in WriteRowsOutcomes(indexKVs) : o.err}}
            \cup {[err |-> FALSE, stored |-> d.stored \cup i.stored,
                   buf |-> [buf EXCEPT !.KvPairs = <<>>]] :
                 d \in {o \in WriteRowsOutcomes(dataKVs) : ~o.err},
                 i \in {o \in WriteRowsOutcomes(indexKVs) : ~o.err}}

(***************************************************************************)
(* cdclog.TableBuffer                                                      *)
(***************************************************************************)
\* NewTableBuffer(tableInfo, allocs, ...): tableInfo 0 is the nil descriptor
NewTableBuffer(tableInfo) ==
    [TableInfo |-> tableInfo, TableID |-> tableInfo, KvPairs |-> <<>>]

ReloadMeta(buf, tableInfo) ==
    [buf EXCEPT !.TableInfo = tableInfo, !.TableID = tableInfo]

ResetTableInfo(buf) == [buf EXCEPT !.TableInfo = 0, !.TableID = 0]

\* the pairs a row-change event is encoded to: one data pair, one index pair
EncodeRow(buf, item) ==
    LET v == [ts |-> item.TS, schema |-> item.Schema, tid |-> buf.TableInfo]
    IN << [cls |-> "data", key |-> item.Key, val |-> v],
          [cls |-> "index", key |-> item.Key, val |-> v] >>

\* the steps of Encode that can fail: the cast of a value, the rebase of an
\* allocator, the evaluation of a generated column, AddRecord
EncodeFailures == {"cast", "rebase", "genexpr", "addrecord"}

\* what Encode returns: (nil, err) when a step failed, (kvPairs, nil) otherwise
EncodeResult(buf, item, failed) ==
    IF failed # "none" THEN [err |-> TRUE, Row |-> <<>>]
    ELSE [err |-> FALSE, Row |-> EncodeRow(buf, item)]

BufferAppend(buf, item) ==
    [buf EXCEPT !.KvPairs = @ \o EncodeRow(buf, item)]

\* TableBuffer.Append: the row is encoded and its pairs are kept, or the error
\* of Encode is returned
AppendOutcomes(buf, item) ==
    {IF r.err THEN [err |-> "EncodeError", buf |-> buf]
     ELSE [err |-> "nil", buf |-> BufferAppend(buf, item)] :
        r \in {EncodeResult(buf, item, f) : f \in {"none"} \cup EncodeFailures}}

ShouldApply(buf) == Len(buf.KvPairs) >= BatchFlushKVPairs


(***************************************************************************)
(* The log on storage                                                      *)
(***************************************************************************)
\* the DDL statements the log can hold: [Type, Schema, Table]
DDLKinds ==
    {[Type |-> ty, Schema |-> "s1", Table |-> NoTable] : ty \in DBTypes}
    \cup {[Type |-> ty, Schema |-> "s1", Table |-> "t1"] : ty \in TableTypes}
    \cup {[Type |-> "CreateTable", Schema |-> "s2", Table |-> "t1"],
          [Type |-> "DropTable", Schema |-> "s1", Table |-> "t2"]}

DDLItem(ts, k) ==
    [ItemType |-> "DDL", TS |-> ts, Schema |-> k.Schema, Table |-> k.Table,
     Type |-> k.Type]

DDLItems == {DDLItem(ts, k) : ts \in TSs, k \in DDLKinds}

\* a DDL file is named after the ts of its first event
DDLFile(events) == [ts |-> events[1].TS, events |-> events]

\* two events of the log, in commit order
DDLPairs == {p \in DDLItems \X DDLItems : p[1].TS < p[2].TS}

\* the ddls/ directory: at most two events, in one file or in two
DDLDirs ==
    {{}}
    \cup {{DDLFile(<<e>>)} : e \in DDLItems}
    \cup {{DDLFile(<<p[1], p[2]>>)} : p \in DDLPairs}
    \cup {{DDLFile(<<p[1]>>), DDLFile(<<p[2]>>)} : p \in DDLPairs}

\* the row-change file names of a table directory: 0 is the bare name cdclog,
\* n > 0 is cdclog.<n>
Bare == 0
RowDirs == {{}, {Bare}, {1, MaxTS}}

NeedRestoreRowChange(start, n) == n = Bare \/ maybeTSInRange(start, n)

RowItem(t, ts, k) ==
    [ItemType |-> "RowChanged", TS |-> ts, Schema |-> MetaNames[t][1],
     Table |-> MetaNames[t][2], Key |-> k]

\* the arguments of the call and the answers of the cluster
StartTSs == {2}
EndTSs == {0, 2, MaxTS}
ClusterTSs == {MaxTS + 2}

\* What the backup under restore can hold: the ddls/ directories, the ts of the
\* row-change events, the resolved ts of log.meta, the number of events.
AnyLog ==
    [dirs |-> DDLDirs, rowTS |-> TSs, resolved |-> {1, MaxTS - 1}, events |-> MaxEvents]

\* A schema dropped and created again, with its table: three DDL events in commit
\* order, in one file or in three, and row-change files that need not be in
\* commit order.
RecreateTSs == 2..(MaxTS + 1)
RecreateEvents(a, b, c) ==
    << DDLItem(a, [Type |-> "DropSchema", Schema |-> "s1", Table |-> NoTable]),
       DDLItem(b, [Type |-> "CreateSchema", Schema |-> "s1", Table |-> NoTable]),
       DDLItem(c, [Type |-> "CreateTable", Schema |-> "s1", Table |-> "t1"]) >>
RecreateTriples == {x \in RecreateTSs \X RecreateTSs \X RecreateTSs : x[1] < x[2] /\ x[2] < x[3]}
RecreateDirs ==
    {{DDLFile(RecreateEvents(x[1], x[2], x[3]))} : x \in RecreateTriples}
    \cup {{DDLFile(<<RecreateEvents(x[1], x[2], x[3])[i]>>) : i \in 1..3} : x \in RecreateTriples}
RecreateLog ==
    [dirs |-> RecreateDirs, rowTS |-> RecreateTSs, resolved |-> {1, MaxTS + 1},
     events |-> MaxEvents + 2]

\* A table-level DDL for each of the two tables, each in a file of its own, so
\* that both workers come to the DDL step.
ContendPairs ==
    {p \in DDLItems \X DDLItems :
        /\ p[1].Schema = "s1" /\ p[1].Table = "t1" /\ p[1].Type \in TableTypes
        /\ p[2].Schema = "s2" /\ p[2].Table = "t1"
        /\ p[1].TS # p[2].TS}
ContendDirs == {{DDLFile(<<p[1]>>), DDLFile(<<p[2]>>)} : p \in ContendPairs}
ContendLog ==
    [dirs |-> ContendDirs, rowTS |-> TSs, resolved |-> {MaxTS - 1, MaxTS}, events |-> MaxEvents]

\* A table dropped and created again under its name: two DDL events in commit
\* order, in one file or in two, and row-change events before, between and
\* after them.
ReplaceEvents(a, b) ==
    << DDLItem(a, [Type |-> "DropTable", Schema |-> "s1", Table |-> "t1"]),
       DDLItem(b, [Type |-> "CreateTable", Schema |-> "s1", Table |-> "t1"]) >>
ReplacePairs == {x \in TSs \X TSs : x[1] < x[2]}
ReplaceDirs ==
    {{DDLFile(ReplaceEvents(x[1], x[2]))} : x \in ReplacePairs}
    \cup {{DDLFile(<<ReplaceEvents(x[1], x[2])[i]>>) : i \in 1..2} : x \in ReplacePairs}
ReplaceLog ==
    [dirs |-> ReplaceDirs, rowTS |-> TSs, resolved |-> {MaxTS}, events |-> MaxEvents + 1]

(***************************************************************************)
(* The schema catalog of the restore cluster and the SQL executor          *)
(***************************************************************************)
InitCatalog == [schemas |-> Schemas, tables |-> [t \in TableIDs |-> IF t = 1 THEN 11 ELSE 0]]

\* the id a table created by the statement of ev gets
NewTableID(ev) == 20 + ev.TS

TrackedAs(s, t) == {b \in TableIDs : MetaNames[b] = <<s, t>>}

\* infoSchema.TableByName: 0 when the table does not exist
TableByName(cat, s, t) ==
    IF TrackedAs(s, t) = {} THEN 0 ELSE cat.tables[CHOOSE b \in TrackedAs(s, t) : TRUE]

\* infoSchema.TableByID
TableByIDExists(cat, id) == \E b \in TableIDs : cat.tables[b] = id

\* what a statement that succeeds does to the catalog
ExecEffect(cat, ev) ==
    CASE ev.Type = "CreateSchema" -> [cat EXCEPT !.schemas = @ \cup {ev.Schema}]
      [] ev.Type = "DropSchema" ->
            [schemas |-> cat.schemas \ {ev.Schema},
             tables |-> [b \in TableIDs |->
                            IF MetaNames[b][1] = ev.Schema THEN 0 ELSE cat.tables[b]]]
      [] ev.Type = "CreateTable" ->
            [cat EXCEPT !.tables =
                [b \in TableIDs |->
                    IF b \in TrackedAs(ev.Schema, ev.Table) /\ @[b] = 0
                    THEN NewTableID(ev) ELSE @[b]]]
      [] ev.Type = "DropTable" ->
            [cat EXCEPT !.tables =
                [b \in TableIDs |->
                    IF b \in TrackedAs(ev.Schema, ev.Table) THEN 0 ELSE @[b]]]
      [] ev.Type = "TruncateTable" ->
            \* the table is dropped and created again under a new id
            [cat EXCEPT !.tables =
                [b \in TableIDs |->
                    IF b \in TrackedAs(ev.Schema, ev.Table) /\ @[b] # 0
                    THEN NewTableID(ev) ELSE @[b]]]
      [] OTHER -> cat

\* a statement can succeed only in a schema that exists, unless it is about
\* schemas; a table is truncated only if it exists
CanSucceed(cat, ev) ==
    \/ isDBRelatedDDL(ev)
    \/ /\ ev.Schema \in cat.schemas
       /\ ev.Type = "TruncateTable" => TableByName(cat, ev.Schema, ev.Table) # 0


(***************************************************************************)
(* State                                                                   *)
(***************************************************************************)
VARIABLES
    phase,          \* where RestoreLogData is
    result,         \* what the call returned, "none" while it runs
    startTS, endTS, \* LogClient.startTS, LogClient.endTS
    meta,           \* LogClient.meta
    log,            \* which backup is on storage: "any", "recreate" or "contend"
    ddlDir,         \* the files of ddls/ on storage, once listed
    rowsRead,       \* the number of row-change events read from the row files
    ddlFiles,       \* the DDL files collected, in the order they are read
    walked,         \* the directories listed so far
    executed,       \* the statements given to the SQL executor
    dropTSMap,      \* LogClient.dropTSMap, 0 for a schema with no entry
    catalog,        \* the schema catalog of the restore cluster
    eventPullers,   \* LogClient.eventPullers
    tableBuffers,   \* LogClient.tableBuffers
    wpc,            \* where each table worker is
    werr,           \* what each table worker returned
    curItem,        \* the DDL event a worker is executing
    pulled,         \* whether a worker has pulled an event
    lastItem,       \* the item a worker pulled last
    ddlLock,        \* LogClient.ddlLock: 0 or the worker that holds it
    firstErr,       \* the error the task group of restoreTables keeps
    pending,        \* the pairs each worker appended and no flush has ingested yet
    flushed,        \* the pairs of the flushes that returned nil
    ingested,       \* the pairs written to the cluster
    wr,             \* a call of writeRows on its own (SpecWrite)
    rf,             \* the row-change files of one table on their own (SpecRowFiles)
    sel,            \* the choice of the table ids on its own (SpecSelect)
    enc,            \* an encoder on its own (SpecEncode, SpecDatum)
    nm              \* a call of NeedRestoreDDL on its own (SpecDDLName)

vars == <<phase, result, startTS, endTS, meta, log, ddlDir, rowsRead, ddlFiles, walked, executed,
          dropTSMap, catalog, eventPullers, tableBuffers, wpc, werr, curItem,
          pulled, lastItem, ddlLock, firstErr, pending, flushed, ingested, wr, rf, sel, enc, nm>>

orchVars == <<phase, result, startTS, endTS, meta, log, ddlDir, ddlFiles, walked, wr, rf, sel, enc, nm>>
workerVars == <<rowsRead, eventPullers, tableBuffers, wpc, werr, curItem, pulled, lastItem, ddlLock,
                firstErr, pending, flushed, ingested, wr, rf, sel, enc, nm>>

\* the variables of RestoreLogData, and what a function on its own leaves alone
restoreVars == <<phase, result, startTS, endTS, meta, log, ddlDir, rowsRead, ddlFiles,
                 walked, executed, dropTSMap, catalog, eventPullers, tableBuffers, wpc,
                 werr, curItem, pulled, lastItem, ddlLock, firstErr, pending, flushed,
                 ingested>>
exceptWr == <<restoreVars, rf, sel, enc, nm>>
exceptRf == <<restoreVars, wr, sel, enc, nm>>
exceptSel == <<restoreVars, wr, rf, enc, nm>>
exceptEnc == <<restoreVars, wr, rf, sel, nm>>
exceptNm == <<restoreVars, wr, rf, sel, enc>>

NoPuller == [ddlIdx |-> 0, rowHead |-> NoItem, eof |-> TRUE]
\* no entry in tableBuffers: told apart from a buffer whose descriptor is
\* unresolved by a table id no buffer has
NoBuffer == [TableInfo |-> 0, TableID |-> -1, KvPairs |-> <<>>]

\* writeRows is not running
NoWriteRows ==
    [pc |-> "idle", kvs |-> <<>>, newKvs |-> <<>>, remain |-> {}, tasks |-> {},
     failed |-> FALSE, err |-> FALSE, retried |-> FALSE,
     cancelled |-> FALSE, rounds |-> 0,
     written |-> [k \in 1..MaxBatchKey |-> <<>>]]

\* NeedRestoreDDL is not running
NoName == [pc |-> "idle", name |-> <<>>, ok |-> FALSE, err |-> FALSE]

\* no row-change file is being looked at
NoRowFiles == [pc |-> "idle", listed |-> <<>>, files |-> <<>>, read |-> <<>>]

\* no table id is being chosen
NoSelect == [pc |-> "idle"]

\* no encoder has been made
NoEncode == [pc |-> "idle"]

\* the restore call has not begun
Idle ==
    /\ phase = "new"
    /\ result = "none"
    /\ meta = [Names |-> <<>>, GlobalResolvedTS |-> 0]
    /\ ddlDir = {}
    /\ rowsRead = 0
    /\ ddlFiles = <<>>
    /\ walked = {}
    /\ executed = {}
    /\ dropTSMap = [s \in Schemas |-> 0]
    /\ catalog = InitCatalog
    /\ eventPullers = [t \in TableIDs |-> NoPuller]
    /\ tableBuffers = [t \in TableIDs |-> NoBuffer]
    /\ wpc = [t \in TableIDs |-> "none"]
    /\ werr = [t \in TableIDs |-> "nil"]
    /\ curItem = [t \in TableIDs |-> NoItem]
    /\ pulled = [t \in TableIDs |-> FALSE]
    /\ lastItem = [t \in TableIDs |-> NoItem]
    /\ ddlLock = 0
    /\ firstErr = "nil"
    /\ pending = [t \in TableIDs |-> {}]
    /\ flushed = {}
    /\ ingested = {}

InitWith(shape) ==
    /\ log = shape
    /\ startTS \in StartTSs
    /\ endTS \in EndTSs
    /\ wr = NoWriteRows
    /\ rf = NoRowFiles
    /\ sel = NoSelect
    /\ enc = NoEncode
    /\ nm = NoName
    /\ Idle

Init == InitWith("any")

InitRecreate == InitWith("recreate")

InitContend == InitWith("contend")

InitReplace == InitWith("replace")

\* the backup the call restores
Backup ==
    CASE log = "any" -> AnyLog
      [] log = "recreate" -> RecreateLog
      [] log = "replace" -> ReplaceLog
      [] OTHER -> ContendLog

Return(err) == phase' = "done" /\ result' = err

(***************************************************************************)
(* NewLogRestoreClient                                                     *)
(***************************************************************************)
NewLogRestoreClient ==
    /\ phase = "new"
    /\ IF endTS = 0
       THEN \/ \E ts \in ClusterTSs : endTS' = ts /\ phase' = "meta" /\ result' = result
            \/ Return("GetTSError") /\ endTS' = endTS
       ELSE phase' = "meta" /\ UNCHANGED <<endTS, result>>
    /\ UNCHANGED <<startTS, meta, log, ddlDir, ddlFiles, walked, executed, dropTSMap,
                   catalog>>
    /\ UNCHANGED workerVars

(***************************************************************************)
(* RestoreLogData: the meta file and the ts window                         *)
(***************************************************************************)
\* if l.startTS > l.meta.GlobalResolvedTS { return ErrRestoreRTsConstrain }
WindowInvalid_Never(start, g) == FALSE
WindowInvalid(start, g) == start > g

\* if l.endTS > l.meta.GlobalResolvedTS { l.endTS = l.meta.GlobalResolvedTS }
ClampEndTS_Kept(end, g) == end
ClampEndTS(end, g) == IF end > g THEN g ELSE end

ReadMeta ==
    /\ phase = "meta"
    /\ \/ Return("ReadFileError") /\ UNCHANGED <<meta, endTS>>
       \/ \E g \in Backup.resolved :
            /\ meta' = [Names |-> MetaNames, GlobalResolvedTS |-> g]
            /\ IF WindowInvalid(startTS, g)
               THEN Return("ErrRestoreRTsConstrain") /\ endTS' = endTS
               ELSE /\ endTS' = ClampEndTS(endTS, g)
                    /\ phase' = "collectDDL"
                    /\ result' = result
    /\ UNCHANGED <<startTS, log, ddlDir, ddlFiles, walked, executed, dropTSMap, catalog>>
    /\ UNCHANGED workerVars

(***************************************************************************)
(* collectDDLFiles                                                         *)
(***************************************************************************)
collectDDLFiles ==
    /\ phase = "collectDDL"
    /\ walked' = walked \cup {"ddls"}
    /\ \/ Return("WalkDirError") /\ UNCHANGED <<ddlDir, ddlFiles>>
       \/ \E dir \in Backup.dirs :
            /\ ddlDir' = dir
            /\ ddlFiles' = SortReverse({f \in dir : NeedRestoreDDL(endTS, maxUint64 - f.ts)})
            /\ phase' = "dbDDL"
            /\ result' = result
    /\ UNCHANGED <<startTS, endTS, meta, log, executed, dropTSMap, catalog>>
    /\ UNCHANGED workerVars

(***************************************************************************)
(* doDBDDLJob                                                              *)
(***************************************************************************)
\* the events doDBDDLJob executes, in the order it meets them
DBJobs(files, start, end) ==
    SelectSeq(Flatten(files), LAMBDA e : isDBRelatedDDL(e) /\ tsInRange(start, end, e.TS))

ExecRecord(w, item, use, ok) == [by |-> w, item |-> item, use |-> use, ok |-> ok]

\* doDBDDLJob without l.dropTSMap.Store(item.Schema, item.TS)
RECURSIVE AfterDBJobs_NoStore(_, _, _, _)
AfterDBJobs_NoStore(jobs, n, cat, drop) ==
    IF n = 0 THEN [cat |-> cat, drop |-> drop]
    ELSE [cat |-> ExecEffect(AfterDBJobs_NoStore(jobs, n - 1, cat, drop).cat, jobs[n]),
          drop |-> drop]

\* the catalog and the drop ts map after the first n statements of jobs succeeded
RECURSIVE AfterDBJobs(_, _, _, _)
AfterDBJobs(jobs, n, cat, drop) ==
    IF n = 0 THEN [cat |-> cat, drop |-> drop]
    ELSE LET before == AfterDBJobs(jobs, n - 1, cat, drop)
             e == jobs[n]
         IN [cat |-> ExecEffect(before.cat, e),
             drop |-> IF e.Type = "DropSchema"
                      THEN [before.drop EXCEPT ![e.Schema] = e.TS]
                      ELSE before.drop]

\* a loop that logs the failure of a statement and goes on with the next ones,
\* to return the error at the end
doDBDDLJob_ContinueAfterFailure ==
    /\ phase = "dbDDL"
    /\ LET jobs == DBJobs(ddlFiles, startTS, endTS)
       IN \E n \in 0..Len(jobs) :
            LET after == AfterDBJobs(jobs, n, catalog, dropTSMap)
            IN /\ catalog' = after.cat
               /\ dropTSMap' = after.drop
               /\ IF n = Len(jobs)
                  THEN /\ executed' = executed \cup
                              {ExecRecord(0, jobs[i], FALSE, TRUE) : i \in 1..n}
                       /\ phase' = "collectRows"
                       /\ result' = result
                  ELSE /\ executed' = executed \cup
                              {ExecRecord(0, jobs[i], FALSE, i # n + 1) : i \in 1..Len(jobs)}
                       /\ Return("DDLExecutionError")
    /\ UNCHANGED <<startTS, endTS, meta, log, ddlDir, ddlFiles, walked>>
    /\ UNCHANGED workerVars

doDBDDLJob ==
    /\ phase = "dbDDL"
    /\ LET jobs == DBJobs(ddlFiles, startTS, endTS)
       IN \E n \in 0..Len(jobs) :
            \* the first n statements succeed; the next one, if any, may fail
            LET after == AfterDBJobs(jobs, n, catalog, dropTSMap)
            IN /\ catalog' = after.cat
               /\ dropTSMap' = after.drop
               /\ IF n = Len(jobs)
                  THEN /\ executed' = executed \cup
                              {ExecRecord(0, jobs[i], FALSE, TRUE) : i \in 1..n}
                       /\ phase' = "collectRows"
                       /\ result' = result
                  ELSE /\ executed' = executed \cup
                              {ExecRecord(0, jobs[i], FALSE, TRUE) : i \in 1..n}
                              \cup {ExecRecord(0, jobs[n + 1], FALSE, FALSE)}
                       /\ Return("DDLExecutionError")
    /\ UNCHANGED <<startTS, endTS, meta, log, ddlDir, ddlFiles, walked>>
    /\ UNCHANGED workerVars


(***************************************************************************)
(* collectRowChangeFiles and the creation of the pullers and the buffers   *)
(***************************************************************************)
\* the row-change files of a directory that pass NeedRestoreRowChange
RowChangeFiles(dir, start) == {n \in dir : NeedRestoreRowChange(start, n)}

collectRowChangeFiles ==
    /\ phase = "collectRows"
    /\ walked' = walked \cup {<<"t_", t>> : t \in TableIDs}
    /\ \/ Return("WalkDirError")
          /\ UNCHANGED <<eventPullers, tableBuffers, wpc>>
       \/ \E dirs \in [TableIDs -> RowDirs] :
            LET rowChangeFiles == {t \in TableIDs : RowChangeFiles(dirs[t], startTS) # {}}
            IN /\ eventPullers' =
                     [t \in TableIDs |->
                        IF t \in rowChangeFiles
                        THEN [ddlIdx |-> 1, rowHead |-> NoItem, eof |-> FALSE]
                        ELSE NoPuller]
               /\ tableBuffers' =
                     [t \in TableIDs |->
                        IF t \in rowChangeFiles
                        THEN NewTableBuffer(
                                TableByName(catalog, MetaNames[t][1], MetaNames[t][2]))
                        ELSE NoBuffer]
               /\ wpc' = [t \in TableIDs |-> IF t \in rowChangeFiles THEN "pull" ELSE "none"]
               /\ phase' = "restore"
               /\ result' = result
    /\ UNCHANGED <<startTS, endTS, meta, log, ddlDir, ddlFiles, executed, dropTSMap,
                   catalog>>
    /\ UNCHANGED <<rowsRead, werr, curItem, pulled, lastItem, ddlLock, firstErr, pending,
                   flushed, ingested, wr, rf, sel, enc, nm>>

(***************************************************************************)
(* cdclog.EventPuller.PullOneEvent: the merge of the DDL events and of the *)
(* row-change events of a table, by ts                                     *)
(***************************************************************************)
\* the row-change events the files of table t can hold next
RowItems(t, tss) == {RowItem(t, ts, k) : ts \in tss, k \in Keys}

PullOneEvent(t, p, ddls, tss, rowsLeft) ==
    LET stream == Flatten(ddls)
        d == IF p.ddlIdx <= Len(stream) THEN stream[p.ddlIdx] ELSE NoItem
        \* the next row-change event: the one read before, a new one, or none
        rows == IF p.rowHead # NoItem THEN {[item |-> p.rowHead, eof |-> FALSE, drawn |-> 0]}
                ELSE IF ~p.eof /\ rowsLeft > 0
                THEN {[item |-> r, eof |-> FALSE, drawn |-> 1] : r \in RowItems(t, tss)}
                     \cup {[item |-> NoItem, eof |-> TRUE, drawn |-> 0]}
                ELSE {[item |-> NoItem, eof |-> TRUE, drawn |-> 0]}
        pick(r) ==
            (IF d = NoItem /\ r.item = NoItem
             THEN {[item |-> NoItem, drawn |-> r.drawn,
                    puller |-> [ddlIdx |-> p.ddlIdx, rowHead |-> NoItem, eof |-> r.eof]]}
             ELSE {})
            \cup
            (IF d # NoItem /\ (r.item = NoItem \/ d.TS <= r.item.TS)
             THEN {[item |-> d, drawn |-> r.drawn,
                    puller |-> [ddlIdx |-> p.ddlIdx + 1, rowHead |-> r.item, eof |-> r.eof]]}
             ELSE {})
            \cup
            (IF r.item # NoItem /\ (d = NoItem \/ r.item.TS <= d.TS)
             THEN {[item |-> r.item, drawn |-> r.drawn,
                    puller |-> [ddlIdx |-> p.ddlIdx, rowHead |-> NoItem, eof |-> r.eof]]}
             ELSE {})
    IN UNION {pick(r) : r \in rows}

(***************************************************************************)
(* reloadTableMeta                                                         *)
(***************************************************************************)
\* a reload that leaves the buffer with the descriptor it had
reloadTableMeta_KeepDescriptor(cat, buf, item) == {[err |-> "nil", buf |-> buf]}

\* the results reloadTableMeta can have: [err, buf]
reloadTableMeta(cat, buf, item) ==
    {[err |-> "ReloadError", buf |-> buf]}
    \cup
    (IF buf.TableID # 0 /\ ~TableByIDExists(cat, buf.TableID)
     THEN \* errors.Trace(err) of the nil err of dom.Reload
          {[err |-> "nil", buf |-> buf]}
     ELSE IF buf.TableID = 0 /\ TableByName(cat, item.Schema, item.Table) = 0
     THEN {[err |-> "TableNotExists", buf |-> buf]}
     ELSE IF item.Schema \notin cat.schemas
     THEN {[err |-> "ErrRestoreSchemaNotExists", buf |-> buf]}
     ELSE LET newTableInfo == IF buf.TableID # 0 THEN buf.TableID
                              ELSE TableByName(cat, item.Schema, item.Table)
          IN {[err |-> "nil", buf |-> ReloadMeta(buf, newTableInfo)]})


(***************************************************************************)
(* restoreTableFromPuller                                                  *)
(***************************************************************************)
\* what one turn of the loop leaves: the next position of the worker, the error
\* it returns, its buffer, and the pairs it appended, flushed and wrote
Turn(pc, err, buf, app, fl, st) ==
    [pc |-> pc, err |-> err, buf |-> buf, appended |-> app, flushed |-> fl, stored |-> st]

\* err = l.applyKVChanges(ctx, tableID); if err != nil { return err }; then go to pc
FlushThen(buf, app, pc) ==
    {IF o.err
     THEN Turn("done", "IngestionError", o.buf, app, {}, o.stored)
     ELSE Turn(pc, "nil", o.buf, app, Elems(buf.KvPairs), o.stored) :
        o \in applyKVChangesOutcomes(buf)}

\* a test that looks at the schema only
Unrelated_SchemaOnly(t, item) == ParseQuoteName(MetaNames[t]).schema # item.Schema

\* ddl not influence on this schema/table
Unrelated(t, item) ==
    LET name == ParseQuoteName(MetaNames[t])
    IN ~(name.schema = item.Schema /\ (name.table = item.Table \/ isDBRelatedDDL(item)))

\* err = l.tableBuffers[tableID].Append(item) and the flush that can follow it
AppendTurn(buf, item) ==
    UNION {
      IF a.err # "nil" THEN {Turn("done", a.err, a.buf, {}, {}, {})}
      ELSE LET app == Elems(EncodeRow(buf, item))
           IN IF ShouldApply(a.buf) THEN FlushThen(a.buf, app, "pull")
              ELSE {Turn("pull", "nil", a.buf, app, {}, {})} :
      a \in AppendOutcomes(buf, item)}

\* a row case that reloads the descriptor for every row
RowChangedTurn_AlwaysReload(cat, buf, item) ==
    UNION {
      IF r.err # "nil" THEN {Turn("done", r.err, r.buf, {}, {}, {})}
      ELSE AppendTurn(r.buf, item) :
      r \in reloadTableMeta(cat, buf, item)}

\* a row case that goes on to the next event when Append returned an error
RowChangedTurn_AppendErrIgnored(cat, buf, item) ==
    LET resolved == IF buf.TableInfo = 0 THEN reloadTableMeta(cat, buf, item)
                    ELSE {[err |-> "nil", buf |-> buf]}
    IN UNION {
         IF r.err # "nil" THEN {Turn("done", r.err, r.buf, {}, {}, {})}
         ELSE {IF turn.err = "EncodeError" THEN Turn("pull", "nil", turn.buf, {}, {}, {})
               ELSE turn : turn \in AppendTurn(r.buf, item)} :
         r \in resolved}

\* case cdclog.RowChanged
RowChangedTurn(cat, buf, item) ==
    LET resolved == IF buf.TableInfo = 0 THEN reloadTableMeta(cat, buf, item)
                    ELSE {[err |-> "nil", buf |-> buf]}
    IN UNION {
         IF r.err # "nil" THEN {Turn("done", r.err, r.buf, {}, {}, {})}
         ELSE AppendTurn(r.buf, item) :
         r \in resolved}

\* if l.startTS > item.TS { continue }
BeforeStartTS_Never(start, item) == FALSE
BeforeStartTS(start, item) == start > item.TS

\* if l.endTS < item.TS { err = l.applyKVChanges(ctx, tableID); ...; return nil }
AfterEndTS_NoFlush(buf) == {Turn("done", "nil", buf, {}, {}, {})}
AfterEndTS(buf) == FlushThen(buf, {}, "done")

\* database level ddl job has been executed at the beginning
DatabaseLevelSkipped_Never(item) == FALSE
DatabaseLevelSkipped(item) == isDBRelatedDDL(item)

\* the body of the loop, from the pulled item to the next pull, to the return or
\* to the lock of the DDL step
\* a loop body that looks at the kind of the event first and applies the drop
\* fence to the row-change events only
HandleItem_FenceRowsOnly(t, item, start, end, drop, cat, buf) ==
    IF item = NoItem THEN FlushThen(buf, {}, "done")
    ELSE IF BeforeStartTS(start, item) THEN {Turn("pull", "nil", buf, {}, {}, {})}
    ELSE IF end < item.TS THEN AfterEndTS(buf)
    ELSE IF item.ItemType = "DDL"
         THEN IF Unrelated(t, item) THEN {Turn("pull", "nil", buf, {}, {}, {})}
              ELSE IF DatabaseLevelSkipped(item) THEN {Turn("pull", "nil", buf, {}, {}, {})}
              ELSE FlushThen(buf, {}, "lock")
    ELSE IF shouldFilter(drop, item) THEN FlushThen(buf, {}, "pull")
    ELSE RowChangedTurn(cat, buf, item)

HandleItem(t, item, start, end, drop, cat, buf) ==
    IF item = NoItem THEN FlushThen(buf, {}, "done")
    ELSE IF BeforeStartTS(start, item) THEN {Turn("pull", "nil", buf, {}, {}, {})}
    ELSE IF end < item.TS THEN AfterEndTS(buf)
    ELSE IF shouldFilter(drop, item) THEN FlushThen(buf, {}, "pull")
    ELSE IF item.ItemType = "DDL"
         THEN IF Unrelated(t, item) THEN {Turn("pull", "nil", buf, {}, {}, {})}
              ELSE IF DatabaseLevelSkipped(item) THEN {Turn("pull", "nil", buf, {}, {}, {})}
              ELSE FlushThen(buf, {}, "lock")
    ELSE RowChangedTurn(cat, buf, item)

\* a task group that keeps the error of the worker that failed last
WorkerReturns_LastErr(t, err) ==
    /\ werr' = [werr EXCEPT ![t] = err]
    /\ firstErr' = IF err = "nil" THEN firstErr ELSE err

\* a worker returns: the task group keeps the first error
WorkerReturns(t, err) ==
    /\ werr' = [werr EXCEPT ![t] = err]
    /\ firstErr' = IF firstErr = "nil" THEN err ELSE firstErr

\* the number of row-change events the row files still hold at most
RowsLeft == Backup.events - Len(Flatten(SortReverse(ddlDir))) - rowsRead

Pull(t) ==
    /\ phase = "restore"
    /\ wpc[t] = "pull"
    /\ pulled' = [pulled EXCEPT ![t] = TRUE]
    /\ \/ \* puller.PullOneEvent returns an error
          /\ wpc' = [wpc EXCEPT ![t] = "done"]
          /\ WorkerReturns(t, "PullError")
          /\ UNCHANGED <<rowsRead, eventPullers, tableBuffers, curItem, lastItem, pending,
                         flushed, ingested>>
       \/ \E pl \in PullOneEvent(t, eventPullers[t], ddlFiles, Backup.rowTS, RowsLeft) :
          \E turn \in HandleItem(t, pl.item, startTS, endTS, dropTSMap, catalog,
                                 tableBuffers[t]) :
            /\ eventPullers' = [eventPullers EXCEPT ![t] = pl.puller]
            /\ rowsRead' = rowsRead + pl.drawn
            /\ lastItem' = [lastItem EXCEPT ![t] = pl.item]
            /\ tableBuffers' = [tableBuffers EXCEPT ![t] = turn.buf]
            /\ wpc' = [wpc EXCEPT ![t] = turn.pc]
            /\ curItem' = [curItem EXCEPT ![t] = IF turn.pc = "lock" THEN pl.item ELSE NoItem]
            /\ pending' = [pending EXCEPT ![t] = (@ \cup turn.appended) \ turn.flushed]
            /\ flushed' = flushed \cup turn.flushed
            /\ ingested' = ingested \cup turn.stored
            /\ IF turn.pc = "done" THEN WorkerReturns(t, turn.err)
               ELSE UNCHANGED <<werr, firstErr>>
    /\ UNCHANGED <<executed, dropTSMap, catalog, ddlLock>>
    /\ UNCHANGED orchVars

\* a lock that does not wait for its holder
Lock_NoMutex(t) ==
    /\ phase = "restore"
    /\ wpc[t] = "lock"
    /\ ddlLock' = t
    /\ wpc' = [wpc EXCEPT ![t] = "use"]
    /\ UNCHANGED <<executed, dropTSMap, catalog>>
    /\ UNCHANGED <<rowsRead, eventPullers, tableBuffers, werr, curItem, pulled,
                   lastItem, firstErr, pending, flushed, ingested>>
    /\ UNCHANGED orchVars

\* l.ddlLock.Lock()
Lock(t) ==
    /\ phase = "restore"
    /\ wpc[t] = "lock"
    /\ ddlLock = 0
    /\ ddlLock' = t
    /\ wpc' = [wpc EXCEPT ![t] = "use"]
    /\ UNCHANGED <<executed, dropTSMap, catalog>>
    /\ UNCHANGED <<rowsRead, eventPullers, tableBuffers, werr, curItem, pulled,
                   lastItem, firstErr, pending, flushed, ingested>>
    /\ UNCHANGED orchVars

\* err = l.restoreClient.db.se.Execute(ctx, fmt.Sprintf("use %s", item.Schema))
ExecuteUse(t) ==
    /\ phase = "restore"
    /\ wpc[t] = "use"
    /\ \E ok \in BOOLEAN :
         /\ ok => curItem[t].Schema \in catalog.schemas
         /\ executed' = executed \cup {ExecRecord(t, curItem[t], TRUE, ok)}
         /\ IF ok
            THEN /\ wpc' = [wpc EXCEPT ![t] = "ddl"]
                 /\ UNCHANGED <<werr, firstErr, curItem>>
            ELSE /\ wpc' = [wpc EXCEPT ![t] = "done"]
                 /\ curItem' = [curItem EXCEPT ![t] = NoItem]
                 /\ WorkerReturns(t, "DDLExecutionError")
    /\ UNCHANGED <<dropTSMap, catalog, ddlLock>>
    /\ UNCHANGED <<rowsRead, eventPullers, tableBuffers, pulled, lastItem, pending,
                   flushed, ingested>>
    /\ UNCHANGED orchVars

\* err = l.restoreClient.db.se.Execute(ctx, ddl.Query), the unlock and the
\* reset or the reload of the descriptor that follow it
ExecuteDDL(t) ==
    /\ phase = "restore"
    /\ wpc[t] = "ddl"
    /\ \E ok \in BOOLEAN :
         /\ ok => CanSucceed(catalog, curItem[t])
         /\ executed' = executed \cup {ExecRecord(t, curItem[t], FALSE, ok)}
         /\ IF ~ok
            THEN /\ wpc' = [wpc EXCEPT ![t] = "done"]
                 /\ WorkerReturns(t, "DDLExecutionError")
                 /\ UNCHANGED <<catalog, ddlLock, tableBuffers>>
            ELSE /\ catalog' = ExecEffect(catalog, curItem[t])
                 /\ ddlLock' = 0
                 /\ IF isDropTable(curItem[t])
                    THEN /\ tableBuffers' =
                               [tableBuffers EXCEPT ![t] = ResetTableInfo(@)]
                         /\ wpc' = [wpc EXCEPT ![t] = "pull"]
                         /\ UNCHANGED <<werr, firstErr>>
                    ELSE \E r \in reloadTableMeta(catalog', tableBuffers[t], curItem[t]) :
                         /\ tableBuffers' = [tableBuffers EXCEPT ![t] = r.buf]
                         /\ IF r.err # "nil"
                            THEN /\ wpc' = [wpc EXCEPT ![t] = "done"]
                                 /\ WorkerReturns(t, r.err)
                            ELSE /\ wpc' = [wpc EXCEPT ![t] = "pull"]
                                 /\ UNCHANGED <<werr, firstErr>>
    /\ curItem' = [curItem EXCEPT ![t] = NoItem]
    /\ UNCHANGED <<dropTSMap, rowsRead, eventPullers, pulled, lastItem, pending,
                   flushed, ingested>>
    /\ UNCHANGED orchVars

(***************************************************************************)
(* restoreTables: eg.Wait() and the return of RestoreLogData               *)
(***************************************************************************)
\* eg, ectx := errgroup.WithContext(ctx): ectx is cancelled once the group
\* holds the error of a worker
ectxCancelled == firstErr # "nil"

Wait ==
    /\ phase = "restore"
    /\ \A t \in TableIDs : wpc[t] \in {"none", "done"}
    /\ Return(IF firstErr = "nil" THEN "ok" ELSE firstErr)
    /\ UNCHANGED <<startTS, endTS, meta, log, ddlDir, ddlFiles, walked, executed,
                   dropTSMap, catalog>>
    /\ UNCHANGED workerVars

Next ==
    \/ NewLogRestoreClient
    \/ ReadMeta
    \/ collectDDLFiles
    \/ doDBDDLJob
    \/ collectRowChangeFiles
    \/ \E t \in TableIDs : Pull(t)
    \/ \E t \in TableIDs : Lock(t)
    \/ \E t \in TableIDs : ExecuteUse(t)
    \/ \E t \in TableIDs : ExecuteDDL(t)
    \/ Wait

Spec == Init /\ [][Next]_vars

SpecRecreate == InitRecreate /\ [][Next]_vars

SpecReplace == InitReplace /\ [][Next]_vars

\* RestoreLogData and every worker goroutine keep running while they can; a
\* worker waiting in ddlLock.Lock() gets the lock if it is free again and again
Fairness ==
    /\ WF_vars(NewLogRestoreClient \/ ReadMeta \/ collectDDLFiles \/ doDBDDLJob
                \/ collectRowChangeFiles \/ Wait)
    /\ \A t \in TableIDs :
          /\ WF_vars(Pull(t) \/ ExecuteUse(t) \/ ExecuteDDL(t))
          /\ SF_vars(Lock(t))

SpecFair == InitContend /\ [][Next]_vars /\ Fairness


(***************************************************************************)
(* writeRows on its own: the batch is any sequence of at most MaxBatch      *)
(* pairs; the ingestion tasks write a range in full, write a part of it    *)
(* and put the rest back, or fail.                                         *)
(***************************************************************************)
\* the two values of the deduplication example: v1 of ts 5 and v2 of ts 9
V1 == [ts |-> 5, v |-> "v1"]
V2 == [ts |-> 9, v |-> "v2"]

BatchKeys == 1..MaxBatchKey
BatchPairs == {[cls |-> "data", key |-> k, val |-> v] : k \in BatchKeys, v \in {V1, V2}}
Batches == UNION {[1..n -> BatchPairs] : n \in 0..MaxBatch}

InitWrite ==
    /\ log = "any"
    /\ startTS = 0
    /\ endTS = 0
    /\ Idle
    /\ rf = NoRowFiles
    /\ sel = NoSelect
    /\ enc = NoEncode
    /\ nm = NoName
    /\ \E kvs \in Batches : wr = [NoWriteRows EXCEPT !.pc = "call", !.kvs = kvs]

\* writeRows up to the loop: sort, deduplicate, put the covering range
writeRowsBegin ==
    /\ wr.pc = "call"
    /\ IF Len(wr.kvs) = 0
       THEN wr' = [wr EXCEPT !.pc = "done"]
       ELSE LET newKvs == RemoveDuplicates(SortSliceStable(wr.kvs))
            IN wr' = [wr EXCEPT !.pc = "loop", !.newKvs = newKvs,
                                !.remain = {CoveringRange(newKvs)}]
    /\ UNCHANGED exceptWr

\* the loop with maxRetryTimes as a limit of its rounds
writeRowsTake_MaxRetryTimes ==
    /\ wr.pc = "loop"
    /\ IF wr.remain = {}
       THEN wr' = [wr EXCEPT !.pc = "done"]
       ELSE IF wr.rounds >= maxRetryTimes
            THEN wr' = [wr EXCEPT !.pc = "done", !.err = TRUE]
            ELSE wr' = [wr EXCEPT !.pc = "round", !.tasks = wr.remain,
                                  !.remain = {},
                                  !.rounds = IF @ < MaxRounds THEN @ + 1 ELSE @]
    /\ UNCHANGED exceptWr

\* remain := remainRange.take(); if len(remain) == 0 { break }
\* and the tasks of the round are handed to the worker pool
writeRowsTake ==
    /\ wr.pc = "loop"
    /\ IF wr.remain = {}
       THEN wr' = [wr EXCEPT !.pc = "done"]
       ELSE wr' = [wr EXCEPT !.pc = "round", !.tasks = wr.remain, !.remain = {},
                             !.rounds = IF @ < MaxRounds THEN @ + 1 ELSE @]
    /\ UNCHANGED exceptWr

\* the context writeRows was called with is cancelled by its caller, at any
\* point of the call; ectx of every later round is cancelled with it
ctxCancelled ==
    /\ wr.pc \in {"call", "loop", "round"}
    /\ ~wr.cancelled
    /\ wr' = [wr EXCEPT !.cancelled = TRUE]
    /\ UNCHANGED exceptWr

\* the cluster after the pairs of ps are written
Ingest(written, ps) ==
    [k \in BatchKeys |->
        IF \E p \in ps : p.key = k
        THEN Append(written[k], (CHOOSE p \in ps : p.key = k).val)
        ELSE written[k]]

\* Ingester.writeAndIngestByRange on one range of the round. A task whose
\* context is cancelled does not return nil with a part of its range
\* unwritten. A failing task has written its range up to m; the part from b
\* on is one it had put back before the failure.
writeAndIngestByRange(r) ==
    /\ wr.pc = "round"
    /\ r \in wr.tasks
    /\ \/ \* the whole range is written
          wr' = [wr EXCEPT !.tasks = @ \ {r},
                           !.written = Ingest(@, Produce(wr.newKvs, r))]
       \/ \* the range is written up to m, the rest is put back
          /\ ~wr.cancelled
          /\ \E m \in r.Start..(r.End - 1) :
                wr' = [wr EXCEPT !.tasks = @ \ {r},
                                 !.written = Ingest(@, Produce(wr.newKvs,
                                                  [Start |-> r.Start, End |-> m])),
                                 !.remain = @ \cup {[Start |-> m, End |-> r.End]},
                                 !.retried = TRUE]
       \/ \* the task fails
          \E m \in r.Start..r.End, b \in r.Start..r.End :
             /\ m <= b
             /\ wr' = [wr EXCEPT !.tasks = @ \ {r},
                                 !.written = Ingest(@, Produce(wr.newKvs,
                                                  [Start |-> r.Start, End |-> m])),
                                 !.remain = IF b < r.End
                                            THEN @ \cup {[Start |-> b, End |-> r.End]}
                                            ELSE @,
                                 !.failed = TRUE]
    /\ UNCHANGED exceptWr

\* a round that failed is followed by another one while ranges remain
writeRowsWait_RetryAfterError ==
    /\ wr.pc = "round"
    /\ wr.tasks = {}
    /\ IF wr.failed /\ wr.remain = {}
       THEN wr' = [wr EXCEPT !.pc = "done", !.err = TRUE]
       ELSE wr' = [wr EXCEPT !.pc = "loop"]
    /\ UNCHANGED exceptWr

\* if err := eg.Wait(); err != nil { return err }
writeRowsWait ==
    /\ wr.pc = "round"
    /\ wr.tasks = {}
    /\ IF wr.failed
       THEN wr' = [wr EXCEPT !.pc = "done", !.err = TRUE]
       ELSE wr' = [wr EXCEPT !.pc = "loop"]
    /\ UNCHANGED exceptWr

NextWrite ==
    \/ writeRowsBegin
    \/ writeRowsTake
    \/ \E r \in wr.tasks : writeAndIngestByRange(r)
    \/ writeRowsWait
    \/ ctxCancelled

SpecWrite == InitWrite /\ [][NextWrite]_vars

\* the goroutine of writeRows and the tasks of its pool keep running
SpecWriteFair == SpecWrite /\ WF_vars(NextWrite)


(***************************************************************************)
(* The row-change files of one table on their own: WalkDir hands the names *)
(* of the directory in some order, collectRowChangeFiles sorts them, the   *)
(* puller of the table reads the files in the order of the sorted list.    *)
(***************************************************************************)
MaxRowFiles == 3
MinRowFileTS == 8
MaxRowFileTS == 11
RowFileNames == {Bare} \cup MinRowFileTS..MaxRowFileTS

\* what WalkDir can list in the directory of a table: distinct names in any order
Listings ==
    {l \in UNION {[1..n -> RowFileNames] : n \in 0..MaxRowFiles} :
        \A i, j \in DOMAIN l : i # j => l[i] # l[j]}

\* the startTS of the client: before every file, or between two of them
RowFileStartTSs == {0, MinRowFileTS + 1}

InitRowFiles ==
    /\ log = "any"
    /\ startTS \in RowFileStartTSs
    /\ endTS = 0
    /\ Idle
    /\ wr = NoWriteRows
    /\ sel = NoSelect
    /\ enc = NoEncode
    /\ nm = NoName
    /\ \E l \in Listings : rf = [NoRowFiles EXCEPT !.pc = "walk", !.listed = l]

\* the callback of WalkDir: a file is appended if NeedRestoreRowChange says so
walkRowFiles ==
    /\ rf.pc = "walk"
    /\ rf' = [rf EXCEPT !.pc = "walked",
                        !.files = SelectSeq(rf.listed,
                                      LAMBDA n : NeedRestoreRowChange(startTS, n))]
    /\ UNCHANGED exceptRf

\* sort file in order
sortRowFiles ==
    /\ rf.pc = "walked"
    /\ rf' = [rf EXCEPT !.pc = "sorted", !.files = SortSlice(rf.files)]
    /\ UNCHANGED exceptRf

\* the puller comes to the next file of the list and the worker to its events
readRowFile ==
    /\ rf.pc = "sorted"
    /\ Len(rf.read) < Len(rf.files)
    /\ rf' = [rf EXCEPT !.read = Append(@, rf.files[Len(rf.read) + 1])]
    /\ UNCHANGED exceptRf

NextRowFiles == walkRowFiles \/ sortRowFiles \/ readRowFile

SpecRowFiles == InitRowFiles /\ [][NextRowFiles]_vars


(***************************************************************************)
(* The choice of the table ids to restore, on its own: the two loops at    *)
(* the head of collectRowChangeFiles, over any name map of log.meta and    *)
(* any table filter. Go ranges over a map in an order of its own.          *)
(***************************************************************************)
MaxTableID == 3
SelIDs == 1..MaxTableID
SelNames == {<<"s1", "t1">>, <<"s1", "t2">>, <<"s2", "t1">>}

\* l.meta.Names: table id -> quoted name, for some of the ids
SelMetaNames == UNION {[D -> SelNames] : D \in SUBSET SelIDs}

\* l.tableFilter.MatchTable(schema, table) of a filter that accepts the names of accept
MatchTable(accept, schema, table) == <<schema, table>> \in accept

\* nameIDMap with no entry
NoNameID == [n \in SelNames |-> 0]

\* a loop body that keeps the id met first
StoreNameID_KeepFirst(nameIDMap, name, tableID) ==
    IF nameIDMap[name] # 0 THEN nameIDMap
    ELSE [nameIDMap EXCEPT ![name] = tableID]

\* if tid, ok := nameIDMap[name]; ok { if tid < tableID { nameIDMap[name] = tableID } }
\* else { nameIDMap[name] = tableID }
StoreNameID(nameIDMap, name, tableID) ==
    IF nameIDMap[name] # 0
    THEN IF nameIDMap[name] < tableID THEN [nameIDMap EXCEPT ![name] = tableID]
         ELSE nameIDMap
    ELSE [nameIDMap EXCEPT ![name] = tableID]

InitSelect ==
    /\ log = "any"
    /\ startTS = 0
    /\ endTS = 0
    /\ Idle
    /\ wr = NoWriteRows
    /\ rf = NoRowFiles
    /\ enc = NoEncode
    /\ nm = NoName
    /\ \E names \in SelMetaNames, accept \in SUBSET SelNames :
          sel = [pc |-> IF DOMAIN names = {} THEN "done" ELSE "dedup",
                 Names |-> names, accept |-> accept, todo |-> DOMAIN names,
                 nameIDMap |-> NoNameID, left |-> {}, tableIDs |-> <<>>]

\* one turn of: for tableID, name := range l.meta.Names
dedupName ==
    /\ sel.pc = "dedup"
    /\ \E tableID \in sel.todo :
         LET nameIDMap == StoreNameID(sel.nameIDMap, sel.Names[tableID], tableID)
             todo == sel.todo \ {tableID}
         IN sel' = [sel EXCEPT !.nameIDMap = nameIDMap,
                               !.todo = todo,
                               !.pc = IF todo = {} THEN "filter" ELSE "dedup",
                               !.left = IF todo = {}
                                        THEN {n \in SelNames : nameIDMap[n] # 0}
                                        ELSE {}]
    /\ UNCHANGED exceptSel

\* one turn of: for name, tableID := range nameIDMap
filterName ==
    /\ sel.pc = "filter"
    /\ \E name \in sel.left :
         LET parsed == ParseQuoteName(name)
             left == sel.left \ {name}
         IN sel' = [sel EXCEPT !.left = left,
                               !.pc = IF left = {} THEN "done" ELSE "filter",
                               !.tableIDs =
                                   IF ~MatchTable(sel.accept, parsed.schema, parsed.table)
                                   THEN @
                                   ELSE Append(@, sel.nameIDMap[name])]
    /\ UNCHANGED exceptSel

NextSelect == dedupName \/ filterName

SpecSelect == InitSelect /\ [][NextSelect]_vars


(***************************************************************************)
(* tableKVEncoder.Encode on its own: an encoder made for a table, and a    *)
(* sequence of calls of Encode, each taken step by step.                   *)
(* A column is [kind, Offset, deps]: kind is plain, autoinc, autorand or   *)
(* gen; deps are the columns the expression of a generated column reads.   *)
(***************************************************************************)
MaxCalls == 2
MaxRowID == 2
IncBits == 2

\* shardFmt.IncrementalMask() as a modulus: the incremental bits of a value
IncrementalPart(v) == v % (2 ^ IncBits)

\* the shard drawn from options.AutoRandomSeed
Shard == 1

\* shardFmt.Compose(shard, id), and shardBits | id of a table with sharded row ids
Compose(shard, id) == shard * (2 ^ IncBits) + IncrementalPart(id)

\* types.GetMinValue(&col.FieldType): the dummy value of a generated column
Placeholder == -1

\* table.GetColDefaultValue
DefaultVal == 0

\* no datum for the column: columnPermutation[i] is -1 or beyond the row
Missing == -2

EncCol(kind, offset, deps) == [kind |-> kind, Offset |-> offset, deps |-> deps]

\* the tables an encoder is made for
EncTables ==
    { [cols |-> <<EncCol("plain", 1, {}), EncCol("gen", 2, {1}), EncCol("gen", 3, {1, 2})>>,
       autoRowID |-> TRUE, sharded |-> TRUE],
      [cols |-> <<EncCol("autoinc", 1, {}), EncCol("gen", 2, {1})>>,
       autoRowID |-> FALSE, sharded |-> FALSE],
      [cols |-> <<EncCol("autorand", 1, {}), EncCol("plain", 2, {})>>,
       autoRowID |-> FALSE, sharded |-> FALSE],
      [cols |-> <<EncCol("plain", 1, {})>>,
       autoRowID |-> TRUE, sharded |-> FALSE] }

\* the datums a row can hold for a column
EncVals == {1, 2, 5}

\* meta.ContainsAutoRandomBits()
ContainsAutoRandomBits(tbl) == \E i \in DOMAIN tbl.cols : tbl.cols[i].kind = "autorand"

\* autoIDFn of NewTableKVEncoder
autoIDFn(tbl, id) ==
    IF ContainsAutoRandomBits(tbl) THEN Compose(Shard, id)
    ELSE IF tbl.sharded THEN Compose(Shard, id)
    ELSE id

\* the columns of cols with a generated expression
GeneratedColumns(cols) == {i \in DOMAIN cols : cols[i].kind = "gen"}

\* a sort of genCols by descending column offset
collectGeneratedColumns_Descending(cols) ==
    LET RECURSIVE Sorted(_)
        Sorted(S) ==
            IF S = {} THEN <<>>
            ELSE LET top == CHOOSE i \in S : \A j \in S : cols[j].Offset <= cols[i].Offset
                 IN <<top>> \o Sorted(S \ {top})
    IN Sorted(GeneratedColumns(cols))

\* collectGeneratedColumns: genCols ordered by column offset
collectGeneratedColumns(cols) ==
    LET RECURSIVE Sorted(_)
        Sorted(S) ==
            IF S = {} THEN <<>>
            ELSE LET low == CHOOSE i \in S : \A j \in S : cols[i].Offset <= cols[j].Offset
                 IN <<low>> \o Sorted(S \ {low})
    IN Sorted(GeneratedColumns(cols))

\* the rows Encode can be given for a table: a datum or none for each column
\* and for the row id
EncRows(tbl) ==
    {row \in [1..(Len(tbl.cols) + 1) -> EncVals \cup {Missing}] :
        /\ ~tbl.autoRowID => row[Len(tbl.cols) + 1] = Missing
        /\ \A i \in DOMAIN tbl.cols :
              tbl.cols[i].kind = "gen" => row[i] \in {Missing, 5}}

\* the value getActualDatum gives when no cast fails
getActualDatum(tbl, rowID, col, datum) ==
    IF datum # Missing THEN datum
    ELSE CASE col.kind = "autoinc" -> rowID
           [] col.kind = "autorand" -> autoIDFn(tbl, rowID)
           [] col.kind = "gen" -> Placeholder
           [] OTHER -> DefaultVal

\* alloc.Rebase(ctx, newBase, false) of an allocator whose base is base
Rebase(base, newBase) == IF newBase > base THEN newBase ELSE base

RECURSIVE SumOf(_, _)
SumOf(S, record) ==
    IF S = {} THEN 0
    ELSE LET i == CHOOSE x \in S : TRUE IN record[i] + SumOf(S \ {i}, record)

\* gc.expr.Eval(mutRow.ToRow()): an expression over the columns it reads
GenExprEval(col, record) == 1 + SumOf(col.deps, record)

\* a loop body that rebases the allocator of the auto-increment column only
RebaseForColumn_AutoIncOnly(base, col, value) ==
    [base EXCEPT !.inc = IF col.kind = "autoinc" THEN Rebase(@, value) ELSE @]

\* if kvcodec.isAutoRandomCol(col.ToInfo()) { ... alloc.Rebase(value & IncrementalMask) }
\* if isAutoIncCol(col.ToInfo()) { ... alloc.Rebase(getAutoRecordID(value)) }
RebaseForColumn(base, col, value) ==
    [base EXCEPT
       !.rand = IF col.kind = "autorand" THEN Rebase(@, IncrementalPart(value)) ELSE @,
       !.inc = IF col.kind = "autoinc" THEN Rebase(@, value) ELSE @]

\* return nil, err
EncodeFailed(e) == [e EXCEPT !.pc = "failed", !.result = "err", !.out = <<>>]

\* NewTableKVEncoder
InitEncode ==
    /\ log = "any"
    /\ startTS = 0
    /\ endTS = 0
    /\ Idle
    /\ wr = NoWriteRows
    /\ rf = NoRowFiles
    /\ sel = NoSelect
    /\ nm = NoName
    /\ \E tbl \in EncTables :
          enc = [pc |-> "ready", tbl |-> tbl, genCols |-> collectGeneratedColumns(tbl.cols),
                 calls |-> 0, row |-> <<>>, rowID |-> 0, record |-> <<>>, g |-> 1,
                 evaluated |-> <<>>, base |-> [inc |-> 0, rand |-> 0, row |-> 0],
                 encoded |-> [inc |-> {}, rand |-> {}, row |-> {}],
                 result |-> "none", out |-> <<>>]

\* Encode is called: record = kvcodec.recordCache, of length 0
EncodeCall ==
    /\ enc.pc = "ready"
    /\ enc.calls < MaxCalls
    /\ \E row \in EncRows(enc.tbl), rowID \in 1..MaxRowID :
          enc' = [enc EXCEPT !.pc = "cols", !.row = row, !.rowID = rowID, !.record = <<>>,
                             !.g = 1, !.evaluated = <<>>, !.result = "none", !.out = <<>>]
    /\ UNCHANGED exceptEnc

\* one turn of: for i, col := range cols
EncodeColumn ==
    /\ enc.pc = "cols"
    /\ LET i == Len(enc.record) + 1
           col == enc.tbl.cols[i]
           value == getActualDatum(enc.tbl, enc.rowID, col, enc.row[i])
           record == Append(enc.record, value)
           base == RebaseForColumn(enc.base, col, value)
       IN \/ \* getActualDatum returned an error
             enc' = EncodeFailed(enc)
          \/ \* alloc.Rebase returned an error
             /\ col.kind \in {"autorand", "autoinc"}
             /\ enc' = EncodeFailed([enc EXCEPT !.record = record])
          \/ enc' = [enc EXCEPT !.record = record, !.base = base,
                                !.pc = IF i = Len(enc.tbl.cols) THEN "rowid" ELSE "cols"]
    /\ UNCHANGED exceptEnc

\* if common.TableHasAutoRowID(meta) { ... }
EncodeAutoRowID ==
    /\ enc.pc = "rowid"
    /\ LET next == IF enc.genCols # <<>> THEN "gen" ELSE "add"
           j == enc.row[Len(enc.tbl.cols) + 1]
           value == IF j # Missing THEN j ELSE autoIDFn(enc.tbl, enc.rowID)
           rowValue == IF j # Missing THEN j ELSE enc.rowID
           record == Append(enc.record, value)
       IN IF ~enc.tbl.autoRowID THEN enc' = [enc EXCEPT !.pc = next]
          ELSE \/ \* table.CastValue returned an error
                  /\ j # Missing
                  /\ enc' = EncodeFailed(enc)
               \/ \* alloc.Rebase returned an error
                  enc' = EncodeFailed([enc EXCEPT !.record = record])
               \/ enc' = [enc EXCEPT !.record = record,
                                     !.base.row = Rebase(@, rowValue),
                                     !.pc = next]
    /\ UNCHANGED exceptEnc

\* one turn of the loop of evaluateGeneratedColumns: for _, gc := range genCols
evaluateGeneratedColumns ==
    /\ enc.pc = "gen"
    /\ LET gc == enc.genCols[enc.g]
           value == GenExprEval(enc.tbl.cols[gc], enc.record)
       IN \/ \* gc.expr.Eval or table.CastValue returned an error
             enc' = EncodeFailed(enc)
          \/ enc' = [enc EXCEPT !.record[gc] = value,
                                !.evaluated = Append(@, gc),
                                !.g = @ + 1,
                                !.pc = IF enc.g = Len(enc.genCols) THEN "add" ELSE "gen"]
    /\ UNCHANGED exceptEnc

\* kvcodec.tbl.AddRecord, takeKvPairs and the return of the pairs
EncodeAddRecord ==
    /\ enc.pc = "add"
    /\ LET cols == enc.tbl.cols
           of(kind) == {enc.record[i] : i \in {x \in DOMAIN cols : cols[x].kind = kind}}
       IN \/ enc' = EncodeFailed(enc)
          \/ enc' = [enc EXCEPT
                       !.pc = "ready", !.result = "ok", !.out = enc.record,
                       !.calls = @ + 1,
                       !.encoded = [inc |-> @.inc \cup of("autoinc"),
                                    rand |-> @.rand \cup of("autorand"),
                                    row |-> @.row \cup
                                            (IF enc.tbl.autoRowID
                                             THEN {enc.record[Len(cols) + 1]} ELSE {})]]
    /\ UNCHANGED exceptEnc

NextEncode ==
    \/ EncodeCall
    \/ EncodeColumn
    \/ EncodeAutoRowID
    \/ evaluateGeneratedColumns
    \/ EncodeAddRecord

SpecEncode == InitEncode /\ [][NextEncode]_vars


(***************************************************************************)
(* NeedRestoreDDL on its own: the file name is any string of at most        *)
(* MaxNameLen characters of NameChars.                                      *)
(***************************************************************************)
MaxNameLen == 6
NameChars == {"d", "l", ".", "0", "1", "3"}
FileNames == UNION {[1..n -> NameChars] : n \in 0..MaxNameLen}

ddlFilePrefix == <<"d", "d", "l">>

\* strings.Split(s, "."): the parts of s between the dots
RECURSIVE Split(_)
Split(s) ==
    IF \A i \in DOMAIN s : s[i] # "."
    THEN <<s>>
    ELSE LET i == CHOOSE j \in DOMAIN s :
                     s[j] = "." /\ \A k \in 1..(j - 1) : s[k] # "."
         IN <<SubSeq(s, 1, i - 1)>> \o Split(SubSeq(s, i + 1, Len(s)))

IsDigit(c) == c \in {"0", "1", "2", "3", "4", "5", "6", "7", "8", "9"}

DigitValue(c) ==
    CASE c = "0" -> 0 [] c = "1" -> 1 [] c = "2" -> 2 [] c = "3" -> 3
      [] c = "4" -> 4 [] c = "5" -> 5 [] c = "6" -> 6 [] c = "7" -> 7
      [] c = "8" -> 8 [] c = "9" -> 9

SyntaxOrRangeError == [val |-> 0, err |-> TRUE]

\* a conversion that wraps around instead of reporting a value out of range
RECURSIVE ParseUintFrom_Wrap(_, _)
ParseUintFrom_Wrap(s, n) ==
    IF s = <<>> THEN [val |-> n, err |-> FALSE]
    ELSE IF ~IsDigit(Head(s)) THEN SyntaxOrRangeError
    ELSE ParseUintFrom_Wrap(Tail(s), (n * 10 + DigitValue(Head(s))) % (maxUint64 + 1))

\* the loop of strconv.ParseUint(s, 10, 64) over the characters of s
RECURSIVE ParseUintFrom(_, _)
ParseUintFrom(s, n) ==
    IF s = <<>> THEN [val |-> n, err |-> FALSE]
    ELSE IF ~IsDigit(Head(s)) THEN SyntaxOrRangeError
    ELSE IF n * 10 + DigitValue(Head(s)) > maxUint64 THEN SyntaxOrRangeError
    ELSE ParseUintFrom(Tail(s), n * 10 + DigitValue(Head(s)))

\* strconv.ParseUint(s, 10, 64)
ParseUint(s) == IF s = <<>> THEN SyntaxOrRangeError ELSE ParseUintFrom(s, 0)

\* NeedRestoreDDL(fileName) of a client with the given endTS
NeedRestoreDDLOfName(end, fileName) ==
    LET names == Split(fileName)
    IN IF Len(names) # 2 THEN [ok |-> FALSE, err |-> FALSE]
       ELSE IF names[1] # ddlFilePrefix THEN [ok |-> FALSE, err |-> FALSE]
       ELSE LET ts == ParseUint(names[2])
            IN IF ts.err THEN [ok |-> FALSE, err |-> TRUE]
               ELSE [ok |-> NeedRestoreDDL(end, ts.val), err |-> FALSE]

InitDDLName ==
    /\ log = "any"
    /\ startTS = 0
    /\ endTS \in EndTSs
    /\ Idle
    /\ wr = NoWriteRows
    /\ rf = NoRowFiles
    /\ sel = NoSelect
    /\ enc = NoEncode
    /\ \E name \in FileNames : nm = [NoName EXCEPT !.pc = "call", !.name = name]

NeedRestoreDDLCall ==
    /\ nm.pc = "call"
    /\ LET r == NeedRestoreDDLOfName(endTS, nm.name)
       IN nm' = [nm EXCEPT !.pc = "done", !.ok = r.ok, !.err = r.err]
    /\ UNCHANGED exceptNm

NextDDLName == NeedRestoreDDLCall

SpecDDLName == InitDDLName /\ [][NextDDLName]_vars


(***************************************************************************)
(* GetActualDatum and getActualDatum on their own, called with the same    *)
(* arguments on an encoder of any of the tables.                           *)
(***************************************************************************)
\* the arguments getActualDatum is given by GetActualDatum
ExportedRowID == 70
ExportedColIndex == 0

\* rowID of the caller
DatumRowIDs == {1, MaxRowID, ExportedRowID}

NotCalled == [called |-> FALSE, value |-> 0]
Returned(v) == [called |-> TRUE, value |-> v]

\* GetActualDatum(encoder, rowID, colIndex, inputDatum); colIndex counts from 0
GetActualDatum(tbl, rowID, colIndex, datum) ==
    getActualDatum(tbl, ExportedRowID, tbl.cols[ExportedColIndex + 1], datum)

InitDatum ==
    /\ log = "any"
    /\ startTS = 0
    /\ endTS = 0
    /\ Idle
    /\ wr = NoWriteRows
    /\ rf = NoRowFiles
    /\ sel = NoSelect
    /\ nm = NoName
    /\ \E tbl \in EncTables, rowID \in DatumRowIDs, d \in EncVals \cup {Missing} :
       \E colIndex \in 0..(Len(tbl.cols) - 1) :
          enc = [pc |-> "datum", tbl |-> tbl, rowID |-> rowID, colIndex |-> colIndex,
                 datum |-> d, exported |-> NotCalled, inner |-> NotCalled]

\* the caller calls the exported function
GetActualDatumCall ==
    /\ enc.pc = "datum"
    /\ ~enc.exported.called
    /\ enc' = [enc EXCEPT !.exported =
                  Returned(GetActualDatum(enc.tbl, enc.rowID, enc.colIndex, enc.datum))]
    /\ UNCHANGED exceptEnc

\* the method is called with the arguments of the caller
getActualDatumCall ==
    /\ enc.pc = "datum"
    /\ ~enc.inner.called
    /\ enc' = [enc EXCEPT !.inner =
                  Returned(getActualDatum(enc.tbl, enc.rowID,
                                          enc.tbl.cols[enc.colIndex + 1], enc.datum))]
    /\ UNCHANGED exceptEnc

NextDatum == GetActualDatumCall \/ getActualDatumCall

SpecDatum == InitDatum /\ [][NextDatum]_vars

(***************************************************************************)
(* Properties of the restore call                                          *)
(***************************************************************************)
InWindow(ts) == startTS <= ts /\ ts <= endTS

Buffered(t) == Elems(tableBuffers[t].KvPairs) \cup pending[t]

MetaLoaded == meta.Names # <<>>

\* C1: a row-change event whose commit ts is below startTS or above endTS (endTS
\* as clamped to the resolved ts) is never appended to a table buffer, so no pair
\* encoded from it is in a buffer, in a flushed batch or in the cluster.
C1_RowsOutsideWindowNeverAppended ==
    \A t \in TableIDs :
        \A p \in Buffered(t) \cup flushed \cup ingested : InWindow(p.val.ts)

\* a worker stopped at a row-change event above endTS, after ingesting rows
C1_Witness ==
    \E t \in TableIDs :
        /\ lastItem[t].ItemType = "RowChanged"
        /\ lastItem[t].TS > endTS
        /\ wpc[t] = "done"
        /\ werr[t] = "nil"
        /\ \E p \in ingested : p.val.schema = MetaNames[t][1]

\* the drop-schema events of the log on storage
DropSchemaEvents ==
    {e \in UNION {Elems(f.events) : f \in ddlDir} : e.Type = "DropSchema"}

\* C2 as stated: for a drop-schema event of schema S at T anywhere in the log, no
\* row-change event of S with commit ts < T contributes an ingested pair.
C2_AnyDropFencesRows ==
    \A e \in DropSchemaEvents :
        \A p \in ingested : p.val.schema = e.Schema => ~(p.val.ts < e.TS)

\* C2 amended: for a drop-schema event of schema S at T inside [startTS, endTS]
\* (endTS as clamped), no row-change event of S with commit ts < T is appended
\* to a buffer or contributes an ingested pair, wherever it sits in the stream.
C2_DropInWindowFencesRows ==
    \A e \in DropSchemaEvents :
        InWindow(e.TS) =>
            \A t \in TableIDs :
                \A p \in Buffered(t) \cup flushed \cup ingested :
                    p.val.schema = e.Schema => ~(p.val.ts < e.TS)

\* a worker of a schema dropped at T and created again, with its table, has
\* ingested a row and then met a row of the window with commit ts < T
C2_Witness ==
    \E t \in TableIDs :
        /\ lastItem[t].ItemType = "RowChanged"
        /\ InWindow(lastItem[t].TS)
        /\ lastItem[t].TS < dropTSMap[lastItem[t].Schema]
        /\ tableBuffers[t].TableInfo # 0
        /\ \E p \in ingested : p.val.schema = lastItem[t].Schema

\* C3: while a table worker is in the DDL step of its own table (waiting for the
\* lock, switching the schema, executing the statement) its buffer is empty and
\* every pair it appended before has been ingested by a flush that returned nil.
C3_BufferEmptyAtTableDDL ==
    \A t \in TableIDs :
        wpc[t] \in {"lock", "use", "ddl"} =>
            tableBuffers[t].KvPairs = <<>> /\ pending[t] = {}

\* a worker executes a DDL statement after it has ingested rows of its table
C3_Witness ==
    \E t \in TableIDs :
        /\ wpc[t] = "ddl"
        /\ \E p \in flushed : p.val.schema = MetaNames[t][1]

\* C4: when a table worker has returned nil (its puller is exhausted, or it met
\* an event with commit ts > endTS) its buffer holds no pending pair.
C4_BufferEmptyAtReturn ==
    \A t \in TableIDs :
        (wpc[t] = "done" /\ werr[t] = "nil") =>
            tableBuffers[t].KvPairs = <<>> /\ pending[t] = {}

\* a worker returned nil at an event above endTS and its rows are in the cluster
C4_Witness ==
    \E t \in TableIDs :
        /\ wpc[t] = "done"
        /\ werr[t] = "nil"
        /\ lastItem[t] # NoItem
        /\ lastItem[t].TS > endTS
        /\ \E p \in flushed : p.val.schema = MetaNames[t][1]

SameKey(p, q) == p.cls = q.cls /\ p.key = q.key /\ p.val.schema = q.val.schema

\* C5: a flush of a non-empty buffer either ingests the data batch and the index
\* batch (every key of the batch is in the cluster) and clears the buffer, or it
\* returns an error, leaves the buffer as it was and fails the restore call; the
\* call never returns ok while a pair of a flushed batch is not ingested.
C5_FlushAtomic ==
    /\ \A p \in flushed : \E q \in ingested : SameKey(p, q)
    /\ \A t \in TableIDs :
          werr[t] = "IngestionError" =>
              tableBuffers[t].KvPairs # <<>> /\ pending[t] # {} /\ result # "ok"
    /\ result = "ok" => \A t \in TableIDs : pending[t] = {} /\ werr[t] = "nil"

\* a flush failed on the index batch after the data batch was ingested, and the
\* call returned the error
C5_Witness ==
    \E t \in TableIDs :
        /\ werr[t] = "IngestionError"
        /\ result = "IngestionError"
        /\ \E p \in ingested : p.cls = "data" /\ p \in pending[t]
        /\ ~\E p \in ingested : p.cls = "index"

\* C8: if startTS > GlobalResolvedTS of the loaded meta, the call has returned
\* ErrRestoreRTsConstrain and has done nothing: no statement executed, no
\* directory listed, no puller, no buffer, nothing ingested.
C8_InvalidWindowDoesNothing ==
    (MetaLoaded /\ startTS > meta.GlobalResolvedTS) =>
        /\ phase = "done"
        /\ result = "ErrRestoreRTsConstrain"
        /\ executed = {}
        /\ walked = {}
        /\ \A t \in TableIDs : eventPullers[t] = NoPuller /\ tableBuffers[t] = NoBuffer
        /\ ingested = {}

\* the call returned the invalid-window error
C8_Witness ==
    MetaLoaded /\ startTS > meta.GlobalResolvedTS /\ result = "ErrRestoreRTsConstrain"

\* C9: once the window check has passed, endTS <= GlobalResolvedTS, and no DDL
\* statement and no row-change event with commit ts > GlobalResolvedTS is
\* executed or ingested.
C9_NothingBeyondResolvedTS ==
    (MetaLoaded /\ result # "ErrRestoreRTsConstrain") =>
        /\ endTS <= meta.GlobalResolvedTS
        /\ \A r \in executed : r.item.TS <= meta.GlobalResolvedTS
        /\ \A t \in TableIDs :
              \A p \in Buffered(t) \cup flushed \cup ingested :
                  p.val.ts <= meta.GlobalResolvedTS

\* endTS was clamped (no caller gives the resolved ts), a worker met an event
\* beyond the resolved ts and rows were ingested
C9_Witness ==
    /\ MetaLoaded
    /\ endTS \notin EndTSs
    /\ endTS = meta.GlobalResolvedTS
    /\ ingested # {}
    /\ \E t \in TableIDs : lastItem[t] # NoItem /\ lastItem[t].TS > meta.GlobalResolvedTS

\* C10: every database-level DDL statement is executed by doDBDDLJob, before any
\* table worker has pulled an event; no table worker executes one.
C10_DBLevelDDLBeforeWorkers ==
    [][\A r \in executed' \ executed :
          isDBRelatedDDL(r.item) => (r.by = 0 /\ \A t \in TableIDs : ~pulled[t])]_vars

\* a worker met, in its stream, a database-level DDL of its schema that
\* doDBDDLJob executed, and went on pulling
C10_Witness ==
    \E t \in TableIDs :
        /\ wpc[t] = "pull"
        /\ lastItem[t] # NoItem
        /\ lastItem[t].ItemType = "DDL"
        /\ isDBRelatedDDL(lastItem[t])
        /\ lastItem[t].Schema = MetaNames[t][1]
        /\ ExecRecord(0, lastItem[t], FALSE, TRUE) \in executed


(***************************************************************************)
(* Properties of writeRows                                                 *)
(***************************************************************************)
WriteRowsReturnedNil == wr.pc = "done" /\ ~wr.err

KeysOf(kvs) == {kvs[i].key : i \in 1..Len(kvs)}

\* C6: when writeRows returns nil on a batch, the set of remaining ranges is
\* empty and every key of the batch has been written exactly once, also when
\* ranges were written in part and their rest put back for a later round.
C6_EveryKeyIngestedOnce ==
    WriteRowsReturnedNil =>
        /\ wr.remain = {}
        /\ wr.tasks = {}
        /\ \A k \in BatchKeys :
              Len(wr.written[k]) = IF k \in KeysOf(wr.kvs) THEN 1 ELSE 0

\* writeRows returned nil on a batch of several keys after a range was put back
C6_Witness ==
    /\ WriteRowsReturnedNil
    /\ wr.retried
    /\ Cardinality(KeysOf(wr.kvs)) >= 2

\* the batch of the example: (k1, v1) of ts 5 and (k1, v2) of ts 9, in any order
TwoWritesOfOneKey(kvs) ==
    /\ Len(kvs) = 2
    /\ kvs[1].key = kvs[2].key
    /\ {kvs[1].val, kvs[2].val} = {V1, V2}

\* C7 as stated: the batch of the example yields exactly one stored pair for k1,
\* with value v2, in either order of the two pairs in the batch.
C7_LatestWinsInAnyOrder ==
    (WriteRowsReturnedNil /\ TwoWritesOfOneKey(wr.kvs)) =>
        wr.written[wr.kvs[1].key] = <<V2>>

\* C7 amended: the batch of the example yields exactly one stored pair for k1,
\* with the value of the pair that sits last in the batch: v2 when (k1, v1) is
\* before (k1, v2), v1 in the other order.
C7_LastInBatchWins ==
    (WriteRowsReturnedNil /\ TwoWritesOfOneKey(wr.kvs)) =>
        wr.written[wr.kvs[1].key] = <<wr.kvs[2].val>>

\* writeRows returned nil on <<(k1, v1), (k1, v2)>> and v2 is stored
C7_Witness ==
    /\ WriteRowsReturnedNil
    /\ TwoWritesOfOneKey(wr.kvs)
    /\ wr.kvs[1].val = V1
    /\ wr.written[wr.kvs[1].key] = <<V2>>

(***************************************************************************)
(* Properties of the order of DDL and rows                                 *)
(***************************************************************************)
\* the DDL events of the log on storage, collected or not
LogDDLEvents == UNION {Elems(f.events) : f \in ddlDir}

\* the pairs of the row-change events applied so far
Applied == flushed \cup ingested \cup UNION {Buffered(t) : t \in TableIDs}

ExecutedUpFront(e) == ExecRecord(0, e, FALSE, TRUE) \in executed

\* C11 as stated: when a row-change event is applied, every database-level DDL
\* event of the log with commit ts <= the ts of the row has been executed.
C11_AllEarlierDBLevelDDLExecuted ==
    \A p \in Applied :
        \A e \in LogDDLEvents :
            (isDBRelatedDDL(e) /\ e.TS <= p.val.ts) => ExecutedUpFront(e)

\* C11 amended: when a row-change event is applied, every database-level DDL
\* event of the log with startTS <= commit ts <= the ts of the row has been
\* executed; one below startTS is not replayed.
C11_EarlierDBLevelDDLOfWindowExecuted ==
    \A p \in Applied :
        \A e \in LogDDLEvents :
            (isDBRelatedDDL(e) /\ startTS <= e.TS /\ e.TS <= p.val.ts) => ExecutedUpFront(e)

\* a row is applied and the log holds a database-level DDL of the window that is
\* not later than the row
C11_Witness ==
    \E p \in Applied :
        \E e \in LogDDLEvents :
            /\ isDBRelatedDDL(e)
            /\ startTS <= e.TS
            /\ e.TS <= p.val.ts
            /\ e.Schema = p.val.schema

(***************************************************************************)
(* Properties of the task group of the table workers                       *)
(***************************************************************************)
\* the workers that returned an error
Failed == {t \in TableIDs : werr[t] # "nil"}

\* C12: restoreTables returns nil only if every worker returned nil; when
\* workers fail, the group keeps the error of the first of them, its context is
\* cancelled from then on, and that error is what restoreTables returns.
C12_FirstWorkerErrorReturned ==
    /\ [](/\ result = "ok" =>
                \A t \in TableIDs : wpc[t] \in {"none", "done"} /\ werr[t] = "nil"
          /\ Failed # {} => ectxCancelled)
    /\ [][/\ (Failed = {} /\ Failed' # {}) =>
                \E t \in Failed' : firstErr' = werr'[t]
          /\ Failed # {} => firstErr' = firstErr
          /\ (phase = "restore" /\ phase' = "done") =>
                result' = IF Failed = {} THEN "ok" ELSE firstErr]_vars

\* two workers failed with different errors and the call returned the first one
C12_Witness ==
    /\ phase = "done"
    /\ \E t, u \in Failed : werr[t] # werr[u]
    /\ result = firstErr
    /\ result \in {werr[t] : t \in Failed}

\* C13 as stated: once a worker has failed, every sibling worker eventually
\* stops and RestoreLogData eventually returns the error the group kept; no
\* worker stays blocked at the DDL lock.
C13_FailureStopsEveryWorker ==
    (Failed # {}) ~>
        /\ phase = "done"
        /\ result = firstErr
        /\ \A t \in TableIDs : wpc[t] \in {"none", "done"}

\* a worker waits for the DDL lock, which is held by a worker that has returned
C13_Witness ==
    \E t \in TableIDs :
        /\ wpc[t] = "lock"
        /\ ddlLock # 0
        /\ ddlLock # t
        /\ wpc[ddlLock] = "done"
        /\ werr[ddlLock] = "DDLExecutionError"
        /\ phase = "restore"

(***************************************************************************)
(* Properties of the DDL lock                                              *)
(***************************************************************************)
\* the workers between ddlLock.Lock() and the end of their DDL statement
InDDLStep == {t \in TableIDs : wpc[t] \in {"use", "ddl"}}

\* C14 as stated: the DDL lock is released on every exit path of the DDL step;
\* in every state in which no worker is inside the step, the lock is free.
C14_LockFreeOutsideDDLStep == (InDDLStep = {}) => ddlLock = 0

\* a worker has returned the error of its statement and the lock is still its
C14_Witness ==
    \E t \in TableIDs :
        /\ wpc[t] = "done"
        /\ werr[t] = "DDLExecutionError"
        /\ ddlLock = t
        /\ InDDLStep = {}

\* C15: at most one worker at a time is between the start of its schema switch
\* and the end of its DDL statement, it is the holder of the lock, and between
\* the 'use' of a worker and its DDL text no other worker's statement is given
\* to the session.
C15_OneWorkerInDDLStep ==
    /\ [](/\ Cardinality(InDDLStep) <= 1
          /\ InDDLStep # {} => ddlLock \in InDDLStep)
    /\ [][\A t \in TableIDs :
            wpc[t] = "ddl" => \A r \in executed' \ executed : r.by = t]_vars

\* a worker is between its 'use' and its DDL text while another one waits for
\* the lock
C15_Witness ==
    \E t, u \in TableIDs :
        /\ wpc[t] = "ddl"
        /\ ExecRecord(t, curItem[t], TRUE, TRUE) \in executed
        /\ wpc[u] = "lock"

(***************************************************************************)
(* Properties of the drop ts map                                           *)
(***************************************************************************)
NoDropTS == [s \in Schemas |-> 0]

\* the drop ts map after doDBDDLJob has executed n statements of the collected
\* files
DropTSAfter(n) ==
    AfterDBJobs(DBJobs(ddlFiles, startTS, endTS), n, InitCatalog, NoDropTS).drop

PulledDDL(t, x) ==
    /\ wpc[t] = "pull"
    /\ eventPullers[t] # NoPuller
    /\ eventPullers'[t] # NoPuller
    /\ eventPullers'[t].ddlIdx = eventPullers[t].ddlIdx + 1
    /\ lastItem'[t] = x

\* x is inside the window and not behind the drop ts of its schema
InWindowUnfenced(x) == InWindow(x.TS) /\ ~(dropTSMap[x.Schema] > x.TS)

UnrelatedTo(t, x) ==
    \/ x.Schema # MetaNames[t][1]
    \/ x.Table # MetaNames[t][2] /\ x.Type \notin DBTypes

\* C18: a DDL event inside the window, not fenced and unrelated to the table of
\* the worker is skipped: no statement executed, the lock not taken, the buffer
\* and its descriptor unchanged, nothing flushed, no error, and the worker
\* pulls again.
C18_UnrelatedDDLSkipped ==
    [][\A t \in TableIDs :
         \A x \in LogDDLEvents :
            (PulledDDL(t, x) /\ InWindowUnfenced(x) /\ UnrelatedTo(t, x))
            => /\ executed' = executed
               /\ ddlLock' = ddlLock
               /\ catalog' = catalog
               /\ tableBuffers'[t] = tableBuffers[t]
               /\ pending' = pending
               /\ ingested' = ingested
               /\ werr' = werr
               /\ firstErr' = firstErr
               /\ wpc'[t] = "pull"]_vars

\* a worker with rows in its buffer met a table-level DDL of another table of
\* its schema and pulls on, the rows still in the buffer
C18_Witness ==
    \E t \in TableIDs :
        /\ wpc[t] = "pull"
        /\ lastItem[t] # NoItem
        /\ lastItem[t].ItemType = "DDL"
        /\ lastItem[t].Schema = MetaNames[t][1]
        /\ UnrelatedTo(t, lastItem[t])
        /\ InWindow(lastItem[t].TS)
        /\ tableBuffers[t].KvPairs # <<>>

\* worker t has executed the DDL text of its event with success in this step
ExecutedOwnDDL(t) ==
    /\ wpc[t] = "ddl"
    /\ ExecRecord(t, curItem[t], FALSE, TRUE) \in executed' \ executed

\* C19: after a worker has executed a DropTable of its table, the buffer of the
\* table is still there under the same backup table id with the pairs it had,
\* its descriptor is unresolved, no reload of the descriptor was attempted (no
\* error can come of it) and the worker pulls again.
C19_DropTableResetsDescriptor ==
    [][\A t \in TableIDs :
         (ExecutedOwnDDL(t) /\ curItem[t].Type = "DropTable")
         => /\ tableBuffers'[t] # NoBuffer
            /\ tableBuffers'[t].TableInfo = 0
            /\ tableBuffers'[t].KvPairs = tableBuffers[t].KvPairs
            /\ werr'[t] = "nil"
            /\ wpc'[t] = "pull"
            /\ ddlLock' = 0]_vars

\* a worker executed the DropTable of its table, whose descriptor was resolved
\* before, and pulls on with an unresolved descriptor
C19_Witness ==
    \E t \in TableIDs :
        /\ wpc[t] = "pull"
        /\ lastItem[t] # NoItem
        /\ lastItem[t].ItemType = "DDL"
        /\ lastItem[t].Type = "DropTable"
        /\ ExecRecord(t, lastItem[t], FALSE, TRUE) \in executed
        /\ tableBuffers[t].TableInfo = 0
        /\ \E p \in ingested : p.val.schema = MetaNames[t][1] /\ p.val.tid # 0

\* the descriptor d is one of a table the catalog holds
LiveDescriptor(cat, d) == d # 0 /\ TableByIDExists(cat, d)

\* C20 as stated: when a worker has executed a table-level DDL that is not a drop
\* and goes on to the next event, the descriptor of its buffer is the one the
\* catalog gives after the reload: for the target table id of the buffer when
\* that id is known, otherwise for the schema and table name of the event.
C20_DescriptorReloadedAfterDDL ==
    [][\A t \in TableIDs :
         (ExecutedOwnDDL(t) /\ curItem[t].Type # "DropTable" /\ wpc'[t] = "pull")
         => /\ LiveDescriptor(catalog', tableBuffers'[t].TableInfo)
            /\ tableBuffers[t].TableID # 0 =>
                  tableBuffers'[t].TableInfo = tableBuffers[t].TableID
            /\ tableBuffers[t].TableID = 0 =>
                  tableBuffers'[t].TableInfo =
                     TableByName(catalog', curItem[t].Schema, curItem[t].Table)]_vars

\* a worker went on after a DDL of its table with a descriptor the catalog no
\* longer holds, and a later row was written under it
C20_Witness ==
    \E t \in TableIDs :
        /\ tableBuffers[t].TableInfo # 0
        /\ ~TableByIDExists(catalog, tableBuffers[t].TableInfo)
        /\ \E r \in executed :
              /\ r.by = t /\ r.ok /\ ~r.use
              /\ r.item.Type = "TruncateTable"
              /\ \E p \in ingested :
                    /\ p.val.tid = tableBuffers[t].TableInfo
                    /\ p.val.ts >= r.item.TS
                    /\ p.val.schema = r.item.Schema

(***************************************************************************)
(* C21                                                                     *)
(***************************************************************************)
\* the statements of its table that worker t has executed with success
ExecutedBy(t, type) ==
    {x \in executed : x.by = t /\ ~x.use /\ x.ok /\ x.item.Type = type}

\* the pairs applied for the rows of table t
AppliedOf(t) == {p \in Applied : p.val.schema = MetaNames[t][1]}

\* C21: when a worker has executed the DropTable of its table and then the
\* CreateTable of a table of the same name, every row-change event of the table
\* with a later commit ts that it applies is encoded against the descriptor of
\* the created table (the new table id), never against the descriptor the
\* buffer held before the drop.
C21_RowAfterRecreateUsesNewDescriptor ==
    \A t \in TableIDs :
      \A d \in ExecutedBy(t, "DropTable") :
        \A c \in ExecutedBy(t, "CreateTable") :
          d.item.TS < c.item.TS =>
            \A p \in AppliedOf(t) :
              p.val.ts > c.item.TS =>
                /\ p.val.tid = NewTableID(c.item)
                /\ p.val.tid # TableByName(InitCatalog, MetaNames[t][1], MetaNames[t][2])

\* a row of s1.t1 at a ts above the one of the CreateTable has been ingested
\* under the new table id, after a row that came before the drop was ingested
\* under the old one
C21_Witness ==
    /\ \E d \in ExecutedBy(1, "DropTable") :
         \E c \in ExecutedBy(1, "CreateTable") :
           /\ d.item.TS < c.item.TS
           /\ \E p \in ingested :
                /\ p.val.schema = "s1"
                /\ p.val.ts > c.item.TS
                /\ p.val.tid = NewTableID(c.item)
           /\ \E q \in ingested :
                /\ q.val.schema = "s1"
                /\ q.val.ts <= d.item.TS
                /\ q.val.tid = 11
    /\ result = "ok"

(***************************************************************************)
(* C22                                                                     *)
(***************************************************************************)
\* the only DDL of the log is the CreateTable of the table of worker t, with a
\* commit ts below the window
CreatedBeforeWindow(t) ==
    /\ LogDDLEvents # {}
    /\ \A e \in LogDDLEvents :
          /\ e.Type = "CreateTable"
          /\ <<e.Schema, e.Table>> = MetaNames[t]
          /\ e.TS < startTS

LastRow(t) == lastItem[t] # NoItem /\ lastItem[t].ItemType = "RowChanged"

\* the pairs of the row-change event x have been appended
RowApplied(t, x) ==
    \E p \in AppliedOf(t) : p.key = x.Key /\ p.val.ts = x.TS

\* the errors of the storage, of the encoder and of the log files
OutsideFaults == {"IngestionError", "EncodeError", "PullError"}

\* a row above endTS ends the worker: the row is not applied and what was
\* buffered before it is flushed
StopsAfterFlush(t) ==
    (LastRow(t) /\ lastItem[t].TS > endTS) =>
        /\ wpc[t] = "done"
        /\ werr[t] \in {"nil", "IngestionError"}
        /\ werr[t] = "nil" => Buffered(t) = {}
        /\ ~RowApplied(t, lastItem[t])

\* C22 as stated: with a table created below the window, a row inside the
\* window is applied and the worker does not fail for it; a following row above
\* endTS is discarded and the worker stops after the flush.
C22_RowOfEarlierTableApplied ==
    \A t \in TableIDs :
      (phase \in {"restore", "done"} /\ CreatedBeforeWindow(t)) =>
        /\ (LastRow(t) /\ InWindow(lastItem[t].TS)) =>
              /\ werr[t] \in {"nil"} \cup OutsideFaults
              /\ werr[t] # "EncodeError" => RowApplied(t, lastItem[t])
        /\ StopsAfterFlush(t)

\* C22 (amended): the same, for a table that exists in the catalog of the
\* restore cluster when its buffer is created.
C22_RowOfEarlierTableInCatalogApplied ==
    \A t \in TableIDs :
      (/\ phase \in {"restore", "done"}
       /\ CreatedBeforeWindow(t)
       /\ TableByName(catalog, MetaNames[t][1], MetaNames[t][2]) # 0) =>
        /\ (LastRow(t) /\ InWindow(lastItem[t].TS)) =>
              /\ werr[t] \in {"nil"} \cup OutsideFaults
              /\ werr[t] # "EncodeError" => RowApplied(t, lastItem[t])
        /\ StopsAfterFlush(t)

\* the table was created below the window and is in the catalog; a row of the
\* window is in the cluster, the worker returned nil at a row above endTS and
\* RestoreLogData returned nil
C22_Witness ==
    /\ CreatedBeforeWindow(1)
    /\ TableByName(catalog, "s1", "t1") # 0
    /\ LastRow(1)
    /\ lastItem[1].TS > endTS
    /\ wpc[1] = "done"
    /\ werr[1] = "nil"
    /\ \E p \in ingested : p.val.schema = "s1" /\ InWindow(p.val.ts)
    /\ result = "ok"

(***************************************************************************)
(* C23                                                                     *)
(***************************************************************************)
\* the one result of a flush that does nothing
EmptyFlush(buf) == {[err |-> FALSE, stored |-> {}, buf |-> buf]}

\* worker t comes to the end of its stream, or to an event above endTS, with an
\* empty buffer, and flushes it
FlushesEmptyBuffer(t) ==
    /\ wpc[t] = "pull"
    /\ tableBuffers[t].KvPairs = <<>>
    /\ wpc'[t] = "done"
    /\ werr'[t] # "PullError"
    /\ lastItem'[t] = NoItem \/ lastItem'[t].TS > endTS

\* C23: flushing an empty buffer is a no-op: applyKVChanges returns nil without
\* starting an ingestion and leaves the buffer as it was, writeRows of an empty
\* batch returns nil and writes nothing, and a flush after a successful flush
\* does nothing more.
C23_EmptyFlushIsNoOp ==
    /\ [](/\ WriteRowsOutcomes(<<>>) = {[err |-> FALSE, stored |-> {}]}
          /\ \A t \in TableIDs :
               tableBuffers[t] # NoBuffer =>
                 /\ tableBuffers[t].KvPairs = <<>> =>
                       applyKVChangesOutcomes(tableBuffers[t]) = EmptyFlush(tableBuffers[t])
                 /\ \A o \in applyKVChangesOutcomes(tableBuffers[t]) :
                       ~o.err => /\ o.buf.KvPairs = <<>>
                                 /\ applyKVChangesOutcomes(o.buf) = EmptyFlush(o.buf))
    /\ [][\A t \in TableIDs :
            FlushesEmptyBuffer(t) =>
              /\ werr'[t] = "nil"
              /\ tableBuffers' = tableBuffers
              /\ pending' = pending
              /\ flushed' = flushed
              /\ ingested' = ingested]_vars

\* a worker returned nil at the end of a stream from which nothing was applied,
\* while the other worker has ingested rows
C23_Witness ==
    \E t \in TableIDs :
        /\ wpc[t] = "done"
        /\ werr[t] = "nil"
        /\ pulled[t]
        /\ lastItem[t] = NoItem
        /\ tableBuffers[t].KvPairs = <<>>
        /\ AppliedOf(t) = {}
        /\ ingested # {}

(***************************************************************************)
(* C24                                                                     *)
(***************************************************************************)
\* the commit ts of the last event of a row-change file: the ts of its name;
\* the bare file is the one still written to, its events are the latest
LastEventTS(n) == IF n = Bare THEN MaxRowFileTS + 1 ELSE n

\* C24 as stated: the row-change events of a table are applied in
\* non-decreasing commit ts order for any set of row-change files: a file read
\* later never ends at a lower commit ts than a file read before it.
C24_RowFilesReadInCommitOrder ==
    \A i, j \in DOMAIN rf.read :
        i < j => LastEventTS(rf.read[i]) <= LastEventTS(rf.read[j])

\* the files cdclog.9 and cdclog.10 have been sorted and read: cdclog.10 first
C24_Witness ==
    /\ rf.pc = "sorted"
    /\ rf.files = <<10, 9>>
    /\ rf.read = rf.files

(***************************************************************************)
(* C25                                                                     *)
(***************************************************************************)
\* the table-level DDL events of table t in the log that lie inside the window
\* and are not fenced by a drop of the schema
TableDDLToReplay(t) ==
    {e \in LogDDLEvents :
        /\ <<e.Schema, e.Table>> = MetaNames[t]
        /\ ~isDBRelatedDDL(e)
        /\ InWindowUnfenced(e)}

\* C25 as stated: once RestoreLogData has created the pullers, every table of
\* log.meta that passed the deduplication and the filter has a puller, a buffer
\* and a worker, whether a row-change file of it passed the file filter or not;
\* and when RestoreLogData has returned nil every table-level DDL of such a
\* table inside the window has been executed by its worker.
C25_EverySurvivingTableHasWorker ==
    /\ phase = "restore" =>
          \A t \in TableIDs :
              /\ eventPullers[t] # NoPuller
              /\ tableBuffers[t] # NoBuffer
              /\ wpc[t] # "none"
    /\ (phase = "done" /\ result = "ok") =>
          \A t \in TableIDs :
              \A e \in TableDDLToReplay(t) : ExecRecord(t, e, FALSE, TRUE) \in executed

\* RestoreLogData returned nil; table s1.t1 has a table-level DDL inside the
\* window and no row-change file that passed: it got no puller, no buffer and
\* no worker, and the DDL was executed by nobody
C25_Witness ==
    /\ phase = "done"
    /\ result = "ok"
    /\ wpc[1] = "none"
    /\ eventPullers[1] = NoPuller
    /\ tableBuffers[1] = NoBuffer
    /\ \E e \in TableDDLToReplay(1) :
          /\ e.Type = "CreateTable"
          /\ \A x \in executed : x.item # e

(***************************************************************************)
(* C26                                                                     *)
(***************************************************************************)
\* the ids of log.meta that carry the name n
IDsNamed(n) == {id \in DOMAIN sel.Names : sel.Names[id] = n}

\* the largest id of a non-empty set of ids
Largest(S) == CHOOSE id \in S : \A other \in S : other <= id

\* C26: for any name map of log.meta and any table filter, the table ids chosen
\* for the restore are, for each distinct name of the map that the filter
\* accepts, the largest id that carries the name, each once, and no other id.
C26_LargestIDPerAcceptedName ==
    sel.pc = "done" =>
        /\ Elems(sel.tableIDs) =
              {Largest(IDsNamed(n)) : n \in {x \in sel.accept : IDsNamed(x) # {}}}
        /\ \A i, j \in DOMAIN sel.tableIDs : i # j => sel.tableIDs[i] # sel.tableIDs[j]

\* ids 1 and 3 carry the same accepted name, id 2 a name the filter rejects:
\* only 3 is chosen
C26_Witness ==
    /\ sel.pc = "done"
    /\ DOMAIN sel.Names = SelIDs
    /\ sel.Names[1] = sel.Names[3]
    /\ sel.Names[1] \in sel.accept
    /\ sel.Names[2] \notin sel.accept
    /\ sel.tableIDs = <<3>>

(***************************************************************************)
(* C27                                                                     *)
(***************************************************************************)
\* worker t returns, in this step, the error of the encoding of a row
ReturnsEncodeError(t) ==
    /\ wpc[t] = "pull"
    /\ wpc'[t] = "done"
    /\ werr'[t] = "EncodeError"

\* C27: when the encoding of a row fails at any step, Encode returns an error
\* and a nil Row; no pair of the row is appended, flushed or ingested, the
\* worker returns the error at once, the task group holds an error, and
\* RestoreLogData does not return nil. A row of the window that is not fenced
\* is never passed over in silence: it is applied or its worker has failed.
C27_EncodeErrorFailsRestore ==
    /\ [](/\ \A t \in TableIDs :
               LastRow(t) =>
                  \A f \in EncodeFailures :
                     EncodeResult(tableBuffers[t], lastItem[t], f) = [err |-> TRUE, Row |-> <<>>]
          /\ \A t \in TableIDs :
               (LastRow(t) /\ InWindowUnfenced(lastItem[t])
                  /\ ~RowApplied(t, lastItem[t])) =>
                     wpc[t] = "done" /\ werr[t] # "nil" /\ firstErr # "nil"
          /\ (phase = "done" /\ \E t \in TableIDs : werr[t] = "EncodeError") =>
                 result \notin {"ok", "none"})
    /\ [][\A t \in TableIDs :
            ReturnsEncodeError(t) =>
              /\ tableBuffers' = tableBuffers
              /\ pending' = pending
              /\ flushed' = flushed
              /\ ingested' = ingested
              /\ firstErr' # "nil"]_vars

\* the encoding of the first row of the window failed: nothing of the table is
\* applied, its worker returned the error and RestoreLogData returned it
C27_Witness ==
    \E t \in TableIDs :
        /\ phase = "done"
        /\ werr[t] = "EncodeError"
        /\ result = "EncodeError"
        /\ LastRow(t)
        /\ InWindowUnfenced(lastItem[t])
        /\ AppliedOf(t) = {}

(***************************************************************************)
(* C28                                                                     *)
(***************************************************************************)
\* the length of the record when every declared column (and the row id of a
\* table with an auto row id) has its value
FullRecord(tbl) == Len(tbl.cols) + (IF tbl.autoRowID THEN 1 ELSE 0)

\* C28: in Encode a generated column is evaluated only when every declared
\* column has a value in the record; the generated columns are evaluated in
\* strictly ascending column offset; so the value of each evaluated column is
\* its expression over the values the record holds, those of the generated
\* columns before it included, never over a placeholder; and AddRecord is
\* reached with every generated column evaluated.
C28_GeneratedColumnsInOffsetOrder ==
    enc.pc \in {"cols", "rowid", "gen", "add", "ready", "failed"} =>
       LET cols == enc.tbl.cols
       IN /\ enc.evaluated # <<>> => Len(enc.record) = FullRecord(enc.tbl)
          /\ \A a, b \in DOMAIN enc.evaluated :
                a < b => cols[enc.evaluated[a]].Offset < cols[enc.evaluated[b]].Offset
          /\ \A a \in DOMAIN enc.evaluated :
                LET gc == enc.evaluated[a]
                IN /\ enc.record[gc] = GenExprEval(cols[gc], enc.record)
                   /\ \A d \in cols[gc].deps :
                         cols[d].kind = "gen" =>
                            /\ \E b \in 1..(a - 1) : enc.evaluated[b] = d
                            /\ enc.record[d] # Placeholder
          /\ (enc.pc = "add" \/ enc.result = "ok") =>
                Elems(enc.evaluated) = GeneratedColumns(cols)

\* a row was encoded for the table whose second generated column reads the
\* first: both hold their expression over the final record
C28_Witness ==
    /\ enc.pc = "ready"
    /\ enc.result = "ok"
    /\ Len(enc.tbl.cols) = 3
    /\ enc.evaluated = <<2, 3>>
    /\ enc.out[2] = 1 + enc.out[1]
    /\ enc.out[3] = 1 + enc.out[1] + enc.out[2]

(***************************************************************************)
(* C29                                                                     *)
(***************************************************************************)
\* C29 as stated: after any sequence of successful calls of Encode, the base of
\* each allocator is at least every value encoded for it: the values of the
\* auto-increment column, the incremental bits of the values of the
\* auto-random column, the row ids of a table with an auto row id.
C29_BaseCoversEveryEncodedID ==
    enc.pc = "ready" =>
        /\ \A v \in enc.encoded.inc : enc.base.inc >= v
        /\ \A v \in enc.encoded.rand : enc.base.rand >= IncrementalPart(v)
        /\ \A v \in enc.encoded.row : enc.base.row >= v

\* C29 (amended): the same, where for a table with sharded row ids the base of
\* the row id allocator is at least the incremental part of every encoded row
\* id: a synthesized row id is encoded with its shard bits and the allocator is
\* rebased with the row id before the shard bits are put on.
C29_BaseCoversIncrementalPartOfShardedRowID ==
    enc.pc = "ready" =>
        /\ \A v \in enc.encoded.inc : enc.base.inc >= v
        /\ \A v \in enc.encoded.rand : enc.base.rand >= IncrementalPart(v)
        /\ \A v \in enc.encoded.row :
              enc.base.row >= (IF enc.tbl.sharded THEN IncrementalPart(v) ELSE v)

\* two rows were encoded for the table with sharded row ids, the row ids
\* synthesized: they carry the shard bits and the base is the larger row id
C29_Witness ==
    /\ enc.pc = "ready"
    /\ enc.calls = MaxCalls
    /\ enc.tbl.sharded
    /\ enc.encoded.row = {Compose(Shard, 1), Compose(Shard, 2)}
    /\ enc.base.row = 2

(***************************************************************************)
(* C30                                                                     *)
(***************************************************************************)
\* the place of the last pair of key k in the batch
LastOf(kvs, k) ==
    CHOOSE i \in DOMAIN kvs :
        kvs[i].key = k /\ \A j \in DOMAIN kvs : kvs[j].key = k => j <= i

\* C30: for any non-empty batch given to writeRows, the list that is ingested
\* has strictly increasing keys, holds exactly the distinct keys of the batch,
\* and holds for each key the pair that came last in the batch among the pairs
\* of that key.
C30_SortedDistinctLastOfEachKey ==
    (wr.pc \in {"loop", "round", "done"} /\ wr.kvs # <<>>) =>
        /\ \A i \in 1..(Len(wr.newKvs) - 1) : wr.newKvs[i].key < wr.newKvs[i + 1].key
        /\ KeysOf(wr.newKvs) = KeysOf(wr.kvs)
        /\ \A i \in DOMAIN wr.newKvs :
              wr.newKvs[i] = wr.kvs[LastOf(wr.kvs, wr.newKvs[i].key)]

\* a batch of three pairs: the first and the third have one key and different
\* values, the second has a smaller key; the list ingested is the second pair,
\* then the third
C30_Witness ==
    /\ WriteRowsReturnedNil
    /\ Len(wr.kvs) = 3
    /\ wr.kvs[1].key = wr.kvs[3].key
    /\ wr.kvs[1].val # wr.kvs[3].val
    /\ wr.kvs[2].key < wr.kvs[1].key
    /\ wr.newKvs = <<wr.kvs[2], wr.kvs[3]>>

(***************************************************************************)
(* C31: a round of writeRows in which an ingestion task returned an error  *)
(* is the last one: after it writeRows returns an error and takes no       *)
(* further round, also when ranges remain; it never returns nil with a     *)
(* failed task in its last round.                                          *)
(***************************************************************************)
C31_FailedRoundReturnsError ==
    /\ [](wr.failed => wr.pc \in {"round", "done"})
    /\ []((wr.failed /\ wr.pc = "done") => wr.err)
    /\ [][(wr.failed /\ wr.pc = "round") =>
             /\ wr'.pc \in {"round", "done"}
             /\ wr'.tasks \subseteq wr.tasks
             /\ wr'.pc = "done" => (wr'.err /\ wr'.remain = wr.remain)]_vars

\* writeRows returned an error with a range left in the set
C31_Witness ==
    /\ wr.pc = "done"
    /\ wr.err
    /\ wr.failed
    /\ wr.remain # {}

(***************************************************************************)
(* C32: the loop of writeRows has no limit of attempts: a round without a  *)
(* failed task that leaves ranges is followed by another round, however    *)
(* many there were; and once the context of the caller is cancelled,       *)
(* writeRows eventually returns.                                           *)
(***************************************************************************)
RoundLeftRanges == wr.pc = "round" /\ wr.tasks = {} /\ ~wr.failed /\ wr.remain # {}

DotsOf(s) == Cardinality({i \in DOMAIN s : s[i] = "."})

\* the value of a string of digits, most significant first
RECURSIVE Decimal(_)
Decimal(s) ==
    IF s = <<>> THEN 0 ELSE 10 * Decimal(SubSeq(s, 1, Len(s) - 1)) + DigitValue(s[Len(s)])

IsUint64(s) == s # <<>> /\ (\A i \in DOMAIN s : IsDigit(s[i])) /\ Decimal(s) <= maxUint64

HasDDLPrefix(s) == Len(s) >= 4 /\ SubSeq(s, 1, 4) = <<"d", "d", "l", ".">>

SuffixOf(s) == SubSeq(s, 5, Len(s))

C33_NeedRestoreDDLByName ==
    nm.pc = "done" =>
        /\ nm.ok <=> /\ HasDDLPrefix(nm.name)
                     /\ IsUint64(SuffixOf(nm.name))
                     /\ maxUint64 - Decimal(SuffixOf(nm.name)) <= endTS
        /\ (DotsOf(nm.name) # 1 \/ ~HasDDLPrefix(nm.name)) => (~nm.ok /\ ~nm.err)
        /\ nm.err => (HasDDLPrefix(nm.name) /\ ~IsUint64(SuffixOf(nm.name)))
        /\ (HasDDLPrefix(nm.name) /\ DotsOf(nm.name) = 1 /\ ~IsUint64(SuffixOf(nm.name)))
              => nm.err

\* ddl.30 with endTS 2: its ts is maxUint64 - 30 = 1
C33_Witness ==
    /\ nm.pc = "done"
    /\ nm.name = <<"d", "d", "l", ".", "3", "0">>
    /\ endTS = 2
    /\ nm.ok
    /\ ~nm.err

(***************************************************************************)
(* C34: doDBDDLJob executes the database-level DDL statements of the       *)
(* window oldest first, whatever DDL files were collected, and stops at    *)
(* the first statement that fails: a statement is given to the executor    *)
(* only after every older one of the window succeeded, nothing newer than  *)
(* a failed statement is executed, and without a failure all of them are.  *)
(***************************************************************************)
\* the database-level DDL events of the log with a commit ts in the window
DBLevelInWindow ==
    {e \in LogDDLEvents : e.Type \in DBTypes /\ startTS <= e.TS /\ e.TS <= endTS}

C34_DBLevelDDLOldestFirstUntilFailure ==
    [][(phase = "dbDDL" /\ phase' # "dbDDL") =>
          LET new == executed' \ executed
          IN /\ \A r \in new : r.by = 0 /\ r.item \in DBLevelInWindow
             /\ \A r \in new : \A e \in DBLevelInWindow :
                   e.TS < r.item.TS => ExecRecord(0, e, FALSE, TRUE) \in new
             /\ \A r \in new : ~r.ok => \A q \in new : q.item.TS <= r.item.TS
             /\ IF \A r \in new : r.ok
                THEN /\ {r.item : r \in new} = DBLevelInWindow
                     /\ phase' = "collectRows"
                ELSE result' = "DDLExecutionError"]_vars

\* two database-level statements of the window in two files: the older one
\* succeeded, the newer one failed
C34_Witness ==
    /\ Cardinality(ddlDir) = 2
    /\ result = "DDLExecutionError"
    /\ \E r, q \in executed :
          /\ r.by = 0 /\ q.by = 0
          /\ r.ok /\ ~q.ok
          /\ r.item.TS < q.item.TS
    /\ Cardinality(DBLevelInWindow) = 2

(***************************************************************************)
(* C35                                                                     *)
(***************************************************************************)
\* C35 as stated: the row-change files given to the puller of a table are
\* exactly the listed files named cdclog or cdclog.<ts> with ts >= startTS,
\* in ascending order of the file ts with the bare file cdclog last, for any
\* set of file names.
C35_RowFilesFilteredAndOrderedByTS ==
    rf.pc = "sorted" =>
        /\ Elems(rf.files) = {n \in Elems(rf.listed) : n = Bare \/ n >= startTS}
        /\ Len(rf.files) = Cardinality(Elems(rf.files))
        /\ \A i, j \in DOMAIN rf.files :
              i < j => \/ rf.files[j] = Bare
                       \/ (rf.files[i] # Bare /\ rf.files[i] < rf.files[j])

\* cdclog.8, cdclog.9 and cdclog.10 listed, startTS 9: cdclog.8 is left out and
\* cdclog.10 is put before cdclog.9
C35_Witness ==
    /\ rf.pc = "sorted"
    /\ startTS = 9
    /\ Elems(rf.listed) = {8, 9, 10}
    /\ rf.files = <<10, 9>>

\* which files are kept: this much holds
RowFilesKept ==
    rf.pc \in {"walked", "sorted"} =>
        /\ Elems(rf.files) = {n \in Elems(rf.listed) : n = Bare \/ n >= startTS}
        /\ Len(rf.files) = Cardinality(Elems(rf.files))

(***************************************************************************)
(* C36                                                                     *)
(***************************************************************************)
\* the ways the descriptor of buf cannot be resolved in the catalog cat
NotFoundByID(cat, buf) == buf.TableID # 0 /\ ~TableByIDExists(cat, buf.TableID)
NotFoundByName(cat, buf, item) ==
    buf.TableID = 0 /\ TableByName(cat, item.Schema, item.Table) = 0
SchemaMissing(cat, item) == item.Schema \notin cat.schemas

\* worker t stops with an error in this step
StopsWithError(t) == wpc'[t] = "done" /\ werr'[t] # "nil"

\* C36 as stated: whenever the descriptor cannot be resolved in reloadTableMeta
\* (the table is not found by the target id, not found by name, or its schema
\* is missing), reloadTableMeta returns an error and the worker stops; it never
\* returns nil without a descriptor attached anew.
C36_FailedReloadStopsWorker ==
    [][\A t \in TableIDs :
         (/\ ExecutedOwnDDL(t)
          /\ curItem[t].Type # "DropTable"
          /\ \/ NotFoundByID(catalog', tableBuffers[t])
             \/ NotFoundByName(catalog', tableBuffers[t], curItem[t])
             \/ SchemaMissing(catalog', curItem[t]))
         => StopsWithError(t)]_vars

\* the failures other than the lookup by id do stop the worker
ReloadFailureNotByIDStopsWorker ==
    [][\A t \in TableIDs :
         (/\ ExecutedOwnDDL(t)
          /\ curItem[t].Type # "DropTable"
          /\ ~NotFoundByID(catalog', tableBuffers[t])
          /\ \/ NotFoundByName(catalog', tableBuffers[t], curItem[t])
             \/ SchemaMissing(catalog', curItem[t]))
         => StopsWithError(t)]_vars

\* a worker pulls again after the TruncateTable of its table although the
\* target id of its buffer is no longer in the catalog
C36_Witness ==
    \E t \in TableIDs :
        /\ wpc[t] = "pull"
        /\ werr[t] = "nil"
        /\ lastItem[t] # NoItem
        /\ lastItem[t].ItemType = "DDL"
        /\ lastItem[t].Type = "TruncateTable"
        /\ ExecRecord(t, lastItem[t], FALSE, TRUE) \in executed
        /\ NotFoundByID(catalog, tableBuffers[t])

(***************************************************************************)
(* C37: the drop fence is applied to every event of the window before its  *)
(* kind is looked at. An event behind the drop ts of its schema, DDL of     *)
(* any kind or row change, only flushes the buffer: no statement is         *)
(* executed for it, the lock is not taken, the catalog and the descriptor   *)
(* of the buffer stay as they are, nothing is appended; the worker pulls    *)
(* again, or returns the error of the flush. No worker ever executes a     *)
(* DDL event that is behind the drop ts of its schema.                      *)
(***************************************************************************)
\* x is inside the window and behind the drop ts of its schema
Fenced(x) == InWindow(x.TS) /\ dropTSMap[x.Schema] > x.TS

\* worker t has pulled the row-change event x in this step
PulledRow(t, x) ==
    /\ wpc[t] = "pull"
    /\ x.ItemType = "RowChanged"
    /\ lastItem'[t] = x
    /\ eventPullers'[t].ddlIdx = eventPullers[t].ddlIdx
    /\ eventPullers'[t].rowHead = NoItem
    /\ \/ eventPullers[t].rowHead = x
       \/ eventPullers[t].rowHead = NoItem /\ rowsRead' = rowsRead + 1

\* the step of worker t did nothing but a flush of its buffer
OnlyFlushed(t) ==
    /\ executed' = executed
    /\ catalog' = catalog
    /\ ddlLock' = ddlLock
    /\ curItem'[t] = NoItem
    /\ tableBuffers'[t].TableInfo = tableBuffers[t].TableInfo
    /\ tableBuffers'[t].TableID = tableBuffers[t].TableID
    /\ pending'[t] \subseteq pending[t]
    /\ \/ /\ wpc'[t] = "pull"
          /\ tableBuffers'[t].KvPairs = <<>>
          /\ pending'[t] = {}
          /\ werr'[t] = werr[t]
       \/ /\ wpc'[t] = "done"
          /\ werr'[t] = "IngestionError"
          /\ tableBuffers'[t].KvPairs = tableBuffers[t].KvPairs

C37_FencedEventOnlyFlushes ==
    /\ [][\A t \in TableIDs :
            LET x == lastItem'[t]
            IN (/\ x # NoItem
                /\ Fenced(x)
                /\ PulledDDL(t, x) \/ PulledRow(t, x))
               => OnlyFlushed(t)]_vars
    /\ [](\A r \in executed : r.by # 0 => ~Fenced(r.item))

\* a worker has met a DDL of its own table behind the drop ts of its schema:
\* it has executed nothing and pulls again
C37_Witness ==
    \E t \in TableIDs :
        /\ wpc[t] = "pull"
        /\ lastItem[t] # NoItem
        /\ lastItem[t].ItemType = "DDL"
        /\ lastItem[t].Type \in TableTypes
        /\ <<lastItem[t].Schema, lastItem[t].Table>> = MetaNames[t]
        /\ Fenced(lastItem[t])
        /\ \A r \in executed : r.by # t

(***************************************************************************)
(* C38                                                                     *)
(***************************************************************************)
\* C38 as stated: GetActualDatum(encoder, rowID, colIndex, d) returns what
\* getActualDatum(rowID, colIndex, d) returns on the same encoder.
C38_ExportedReturnsWhatMethodReturns ==
    (enc.pc = "datum" /\ enc.exported.called /\ enc.inner.called) =>
        enc.exported.value = enc.inner.value

\* no datum for the auto-increment column, rowID 1: the method gives 1, the
\* exported function gives 70
C38_Witness ==
    /\ enc.pc = "datum"
    /\ enc.tbl.cols[1].kind = "autoinc"
    /\ enc.colIndex = 0
    /\ enc.rowID = 1
    /\ enc.datum = Missing
    /\ enc.inner = Returned(1)
    /\ enc.exported = Returned(ExportedRowID)

\* with the arguments GetActualDatum passes on, the two agree
ExportedAgreesOnItsOwnArguments ==
    (/\ enc.pc = "datum" /\ enc.exported.called /\ enc.inner.called
     /\ enc.rowID = ExportedRowID /\ enc.colIndex = ExportedColIndex) =>
        enc.exported.value = enc.inner.value

====
